---- MODULE Spec2Model ----
(***************************************************************************)
(* A model of the store and metadata layer of graph-node:                  *)
(*   - store/postgres/src/entities.rs  (per-deployment entity connection)  *)
(*   - store/postgres/src/metadata.rs  (deployment head, subgraph          *)
(*     versions, assignments)                                              *)
(* SQL NULL is modelled as the empty set and a non-NULL value v as {v}.    *)
(***************************************************************************)
EXTENDS Integers, Sequences, FiniteSets, TLC

\* ------------------------------------------------------------------ bounds
\* Highest block number a block stream hands to the store.
MaxBlock == 3
\* Most entity operations (insert, update, delete) in one behaviour, those of
\* rolled back transactions not counted.
MaxOps == 3
\* Most revert_block calls in one behaviour.
MaxReverts == 2

\* Entity keys (entity_type, entity_id) of the one deployment a Connection serves.
Keys == {<<"Thing", "a">>, <<"Thing", "b">>}
\* Entity attribute payloads: every write carries a payload of its own, named
\* by the block and the position of the write in the block.
Data(b, n) == <<b, n>>
\* The chain the block stream follows has one block per number; its hash
\* is identified with the number.
BlockPtr(n) == [number |-> n, hash |-> n]

VARIABLES
    rows,       \* the deployment's entity table: rows with a block range
    dep,        \* the deployment's subgraphs.subgraph_deployment row
    pc,         \* position of the block-writing closure inside transaction(f)
    snap,       \* {} or {state at BEGIN}: what ROLLBACK restores
    blk,        \* the block pointer the open transaction writes
    delta,      \* entity-count delta accumulated by the open transaction
    nops,       \* history: entity operations applied so far
    hist,       \* history: block number -> {} or {rows right after its commit}
    nreverts,   \* history: revert_block calls so far
    tampered,   \* history: entity_count was set to the sentinel by hand
    last        \* history: the last operation and what it was given

evars == <<rows, dep, pc, snap, blk, delta, nops, hist, nreverts, tampered, last>>

VARIABLES
    subgraph,           \* table subgraphs.subgraph
    subgraph_version,   \* table subgraphs.subgraph_version
    deployment,         \* table subgraphs.subgraph_deployment: id -> row
    assignment,         \* table subgraphs.subgraph_deployment_assignment
    nextId,             \* the next id generate_entity_id() hands out
    ret,                \* the Vec<EntityChange> the last lifecycle call returned
    call                \* history: the last lifecycle call and its arguments

lvars == <<subgraph, subgraph_version, deployment, assignment, nextId, ret, call>>

VARIABLES
    provider_events,    \* the SubgraphProviderEvent stream, oldest first
    schema_events,      \* the SchemaEvent stream after the meta schema
    result,             \* "ok" or "err": what the last deploy or remove returned
    deployed,           \* history: name -> "never", "removed" or the id deployed last
    instant_only        \* history: every deploy so far was in mode Instant

pvars == <<provider_events, schema_events, result, deployed, instant_only>>

VARIABLES
    heads,              \* table subgraphs.subgraph_deployment: id -> row
    hcall,              \* history: the last head movement and its arguments
    reorg_runs          \* history: id -> the lengths of its runs of reverts, oldest
                        \* first, and whether the last run can still grow

hvars == <<heads, hcall, reorg_runs>>

VARIABLES
    pool_conns,     \* r2d2: connections established and not closed
    pool_idle,      \* r2d2: established connections nobody has checked out
    gauge,          \* EventHandler.gauge (store_connection_checkout_count)
    wait_stats,     \* EventHandler.wait_stats: the samples added
    last_log,       \* EventHandler.last_log: the Instant of the last emission
    now,            \* the clock Instant::now() reads, in seconds
    upc,            \* thread -> where it is in Pool::get, the handlers or the drop
    started,        \* thread -> the Instant its Pool::get began
    should_log,     \* thread -> the local should_log of its add_wait_time
    outcome,        \* thread -> the Result of its Pool::get: the connection it has, or the error
    emitted,        \* the "Average connection wait time" log lines, oldest first
    errors,         \* the "Connection checkout timed out" log lines, oldest first
    test_build,     \* cfg!(test)
    nticks,         \* history: clock ticks so far
    ngets           \* history: Pool::get calls so far

cvars == <<pool_conns, pool_idle, gauge, wait_stats, last_log, now, upc, started, should_log, outcome, emitted, errors, test_build, nticks,
           ngets>>

VARIABLES
    instance        \* thread -> the subgraph instance it runs: the block it is
                    \* at, whether it runs, the failed flag of its deployment

rvars == <<instance>>

VARIABLES
    abi_pc,         \* "host": a host value; "asc": its AssemblyScript object
                    \* on the heap; "done": the object read back
    abi_type,       \* the Rust type converted to and from
    abi_from,       \* "host": the object was written by the host; "guest": the guest made it
    abi_value,      \* the host value
    abi_obj,        \* the AssemblyScript object
    abi_heap,       \* the heap: the objects allocated so far, a pointer is an index
    abi_result      \* what reading the object back gave: a value or a panic

avars == <<abi_pc, abi_type, abi_from, abi_value, abi_obj, abi_heap, abi_result>>
VARIABLES
    eth_pc,         \* "idle", "sent" (eth_call issued), "replied", "done" (the future resolved)
    eth_request,    \* the EthereumContractCallRequest
    eth_cause,      \* what happened at the node: "returned", "reverted", "no_code", "transport"
    eth_reply,      \* the result of eth_call: the output bytes as 32-byte words, or a web3 error
    eth_result      \* what the future of contract_call resolved to
wvars == <<eth_pc, eth_request, eth_cause, eth_reply, eth_result>>
VARIABLES
    tx,             \* connection -> its open transaction: where the call it runs has
                    \* got to, the call's locals, the rows it wrote and has not committed
    ntx             \* history: transactions begun so far
xvars == <<tx, ntx>>
VARIABLES
    q_sg, q_sv,     \* the subgraph and subgraph_version tables a query is run on
    q_dpl,          \* the subgraph_deployment rows a query joins: id, counters, head
    q_pc,           \* "input" before the query of these tables, "done" after it
    q_name,         \* the name last asked for
    q_result,       \* what deployment_state_from_name returned for it
    q_asked,        \* history: flips with every query of the lifecycle tables
    by_hand         \* history: a subgraph row was inserted past the lifecycle calls
qvars == <<q_sg, q_sv, q_dpl, q_pc, q_name, q_result, q_asked, by_hand>>
VARIABLES
    m_events,       \* the manager's event stream: events sent and not yet handled
    m_sent,         \* history: events sent so far
    m_instances,    \* the manager's map: deployment id -> handle of its instance
    m_running,      \* the instances that run: handle, deployment id, runtime hosts
    m_received,     \* the data sources the host builder was handed, in order
    m_handle,       \* the next handle
    m_last          \* history: the event handled last, and whether it was a duplicate
mvars == <<m_events, m_sent, m_instances, m_running, m_received, m_handle, m_last>>
vars == <<evars, lvars, pvars, hvars, cvars, rvars, avars, wvars, xvars, qvars, mvars>>
\* what the operations of one component leave alone
ExceptEntity == <<lvars, pvars, hvars, cvars, rvars, avars, wvars, xvars, qvars, mvars>>
ExceptLifecycle == <<evars, pvars, hvars, cvars, rvars, avars, wvars, xvars, qvars, mvars>>
ExceptProvider == <<evars, hvars, cvars, rvars, avars, wvars, xvars, qvars, mvars>>
ExceptHead == <<evars, lvars, pvars, cvars, rvars, avars, wvars, xvars, qvars, mvars>>
ExceptPool == <<evars, lvars, pvars, hvars, rvars, avars, wvars, xvars, qvars, mvars>>
ExceptInstance == <<evars, lvars, pvars, hvars, avars, wvars, xvars, qvars, mvars>>
ExceptAbi == <<evars, lvars, pvars, hvars, cvars, rvars, wvars, xvars, qvars, mvars>>
ExceptAdapter == <<evars, lvars, pvars, hvars, cvars, rvars, avars, xvars, qvars, mvars>>
ExceptConcurrent == <<evars, pvars, hvars, cvars, rvars, avars, wvars, qvars, mvars>>
ExceptQuery == <<evars, lvars, pvars, hvars, cvars, rvars, avars, wvars, xvars, mvars>>
ExceptManager == <<evars, lvars, pvars, hvars, cvars, rvars, avars, wvars, xvars, qvars>>

\* ------------------------------------------------------------ SQL helpers
NULL == {}
Val(x) == CHOOSE v \in x : TRUE
\* nullif(a, b): NULL when a = b, else a
NullIf(a, b) == IF a = {b} THEN NULL ELSE a
\* coalesce(a, b): the first non-NULL argument
Coalesce(a, b) == IF a # NULL THEN a ELSE b
\* a + n with NULL propagating
Plus(a, n) == {v + n : v \in a}
Max2(a, b) == IF a >= b THEN a ELSE b

\* ------------------------------------------------ block ranges [from, to)
\* The upper bound is NULL for "currently valid" (+infinity).
IsOpen(r) == r.to = NULL
Contains(r, n) == r.from <= n /\ (IF IsOpen(r) THEN TRUE ELSE n < Val(r.to))
\* a non-empty range [r.from, r.to) meets [from, +infinity)
Overlaps(r, from) ==
    IF IsOpen(r) THEN TRUE ELSE r.from < Val(r.to) /\ from < Val(r.to)
Row(key, data, from) == [key |-> key, from |-> from, to |-> NULL, data |-> data]
OpenRows(rs) == {r \in rs : IsOpen(r)}
OpenCount(rs) == Cardinality(OpenRows(rs))

\* ----------------------------------------------------- Layout operations
\* find: the data of the row of `key` whose range contains `block`, or NULL
Find(rs, key, block) ==
    LET m == {r \in rs : r.key = key /\ Contains(r, block)}
    IN  IF m = {} THEN NULL ELSE {(CHOOSE r \in m : TRUE).data}

\* The table's exclusion constraint rejects a second row of the same id whose
\* range overlaps an existing one.
InsertConflict(rs, key, block) ==
    \E r \in rs : r.key = key /\ Overlaps(r, block)

LayoutInsert(rs, key, data, block) == rs \cup {Row(key, data, block)}

\* clip the open row of `key` to [from, block)
ClampRange(rs, key, block) ==
    {IF r.key = key /\ IsOpen(r) THEN [r EXCEPT !.to = {block}] ELSE r : r \in rs}

LayoutUpdate(rs, key, data, block) ==
    LayoutInsert(ClampRange(rs, key, block), key, data, block)

LayoutDelete(rs, key, block) == ClampRange(rs, key, block)
\* the usize delete returns: the number of rows it clipped
DeletedCount(rs, key) == Cardinality({r \in rs : r.key = key /\ IsOpen(r)})

\* revert_block: remove rows with from >= block, re-open rows with to >= block
LayoutRevertBlock(rs, block) ==
    LET kept == {r \in rs : r.from < block}
        Reopen(r) == IF IsOpen(r) THEN FALSE ELSE Val(r.to) >= block
    IN  {IF Reopen(r) THEN [r EXCEPT !.to = NULL] ELSE r : r \in kept}
\* the i32 revert_block returns next to the event: the change in live entities
RevertCount(rs, block) == OpenCount(LayoutRevertBlock(rs, block)) - OpenCount(rs)

\* data.count_query: the number of entities of the deployment
CountQuery(rs) == OpenCount(rs)

\* ------------------------------------------------- Connection (entities.rs)
\* block_number(ptr): the block number of a pointer
block_number(ptr) == ptr.number

find(rs, key, block) == Find(rs, key, block)

insert(rs, key, entity, ptr) == LayoutInsert(rs, key, entity, block_number(ptr))

\* mutant: update that does not clip the live row
update_no_clip(rs, key, entity, ptr) == LayoutInsert(rs, key, entity, block_number(ptr))
update(rs, key, entity, ptr) == LayoutUpdate(rs, key, entity, block_number(ptr))

\* mutant: delete that clips the live row one block early
delete_early(rs, key, ptr) ==
    [rows |-> LayoutDelete(rs, key, block_number(ptr) - 1), count |-> DeletedCount(rs, key)]
\* delete: the table after it, and the number of rows it clipped
delete(rs, key, ptr) ==
    [rows |-> LayoutDelete(rs, key, block_number(ptr)), count |-> DeletedCount(rs, key)]

\* mutant: revert_block that reverts from the block after the one given
revert_block_late(rs, block_ptr) ==
    [rows |-> LayoutRevertBlock(rs, block_ptr.number + 1),
     count |-> RevertCount(rs, block_ptr.number + 1)]
\* revert_block: the table after it, and the entity-count change it returns
revert_block(rs, block_ptr) ==
    [rows |-> LayoutRevertBlock(rs, block_ptr.number),
     count |-> RevertCount(rs, block_ptr.number)]

\* mutant: update_entity_count that runs its statement for every count
update_entity_count_no_return(d, rs, count) ==
    [d EXCEPT !.entity_count =
        Coalesce(Plus(NullIf(d.entity_count, -1), count), {CountQuery(rs)})]
\* mutant: update_entity_count that returns early on every count <= 0
update_entity_count_skips_deletes(d, rs, count) ==
    IF count <= 0
    THEN d
    ELSE [d EXCEPT !.entity_count =
            Coalesce(Plus(NullIf(d.entity_count, -1), count), {CountQuery(rs)})]
\* update_entity_count(count) on the deployment row d
update_entity_count(d, rs, count) ==
    IF count = 0
    THEN d
    ELSE [d EXCEPT !.entity_count =
            Coalesce(Plus(NullIf(d.entity_count, -1), count), {CountQuery(rs)})]

\* ------------------------------------------------- head movement (metadata.rs)
\* mutant: the forward movement leaves the depth of the reorg in place
forward_block_ptr_keeps_depth(d, ptr) ==
    [d EXCEPT !.latest_ethereum_block_number = {ptr.number},
              !.latest_ethereum_block_hash = {ptr.hash}]
forward_block_ptr(d, ptr) ==
    [d EXCEPT !.latest_ethereum_block_number = {ptr.number},
              !.latest_ethereum_block_hash = {ptr.hash},
              !.current_reorg_depth = 0]

\* mutant: max_reorg_depth computed from the depth before the increment
revert_block_ptr_stale_max(d, ptr) ==
    [d EXCEPT !.latest_ethereum_block_number = {ptr.number},
              !.latest_ethereum_block_hash = {ptr.hash},
              !.reorg_count = d.reorg_count + 1,
              !.current_reorg_depth = d.current_reorg_depth + 1,
              !.max_reorg_depth = Max2(d.current_reorg_depth, d.max_reorg_depth)]
\* mutant: the revert is not counted in reorg_count
revert_block_ptr_uncounted(d, ptr) ==
    [d EXCEPT !.latest_ethereum_block_number = {ptr.number},
              !.latest_ethereum_block_hash = {ptr.hash},
              !.current_reorg_depth = d.current_reorg_depth + 1,
              !.max_reorg_depth = Max2(d.current_reorg_depth + 1, d.max_reorg_depth)]
revert_block_ptr(d, ptr) ==
    [d EXCEPT !.latest_ethereum_block_number = {ptr.number},
              !.latest_ethereum_block_hash = {ptr.hash},
              !.reorg_count = d.reorg_count + 1,
              !.current_reorg_depth = d.current_reorg_depth + 1,
              !.max_reorg_depth = Max2(d.current_reorg_depth + 1, d.max_reorg_depth)]

\* ------------------------------------------------------------------ state
NoKey == <<"", "">>
NoPtr == BlockPtr(0)
NoHist == [n \in 0..MaxBlock |-> IF n = 0 THEN {{}} ELSE {}]
Op(op, key) == [op |-> op, key |-> key]

\* A fresh deployment: no entities, entity_count 0, no head, zeroed counters.
FreshDeployment ==
    [entity_count |-> {0},
     latest_ethereum_block_number |-> NULL,
     latest_ethereum_block_hash |-> NULL,
     reorg_count |-> 0,
     current_reorg_depth |-> 0,
     max_reorg_depth |-> 0]

EInit ==
    /\ rows = {}
    /\ dep = FreshDeployment
    /\ pc = "idle"
    /\ snap = {}
    /\ blk = NoPtr
    /\ delta = 0
    /\ nops = 0
    /\ hist = NoHist
    /\ nreverts = 0
    /\ tampered = FALSE
    /\ last = Op("init", NoKey)

\* the number of the deployment's head block, 0 before the first block
HeadNumber == IF dep.latest_ethereum_block_number = NULL THEN 0
        ELSE Val(dep.latest_ethereum_block_number)
\* the committed blocks still part of the deployment's chain
Committed == {n \in 1..MaxBlock : hist[n] # {}}
\* the block committed before block b (0: none)
PrevCommitted(b) ==
    LET s == {n \in Committed : n < b}
    IN  IF s = {} THEN 0 ELSE CHOOSE n \in s : \A m \in s : m <= n

\* ------------------------------------------------------ transaction(f)
\* BEGIN: what ROLLBACK will restore
TxBegin(rs, d, n) == {[rows |-> rs, dep |-> d, nops |-> n]}
\* mutant: the closure run without a transaction around it
TxKeepWrites(s) == [rows |-> rows, dep |-> dep, nops |-> Val(s).nops]
\* the closure returned Err: ROLLBACK
TxRollback(s) == Val(s)

\* mutant: the block stream emits the head block again
BeginFromHead(b) ==
    /\ pc = "idle"
    /\ b >= HeadNumber
    /\ pc' = "ops"
    /\ snap' = TxBegin(rows, dep, nops)
    /\ blk' = BlockPtr(b)
    /\ delta' = 0
    /\ last' = Op("begin", NoKey)
    /\ UNCHANGED <<rows, dep, nops, hist, nreverts, tampered>>
    /\ UNCHANGED ExceptEntity
\* The instance runtime opens the transaction of the next block.
Begin(b) ==
    /\ pc = "idle"
    /\ b > HeadNumber
    /\ pc' = "ops"
    /\ snap' = TxBegin(rows, dep, nops)
    /\ blk' = BlockPtr(b)
    /\ delta' = 0
    /\ last' = Op("begin", NoKey)
    /\ UNCHANGED <<rows, dep, nops, hist, nreverts, tampered>>
    /\ UNCHANGED ExceptEntity

Insert(key) ==
    /\ pc = "ops"
    /\ nops < MaxOps
    /\ ~InsertConflict(rows, key, blk.number)
    /\ rows' = insert(rows, key, Data(blk.number, nops), blk)
    /\ delta' = delta + 1
    /\ nops' = nops + 1
    /\ last' = Op("insert", key)
    /\ UNCHANGED <<dep, pc, snap, blk, hist, nreverts, tampered>>
    /\ UNCHANGED ExceptEntity

\* Every step of the closure ends with `?`: an error leaves the closure, and
\* transaction(f) rolls back.
Rollback(op, key) ==
    /\ rows' = TxRollback(snap).rows
    /\ dep' = TxRollback(snap).dep
    /\ pc' = "idle"
    /\ snap' = {}
    /\ blk' = NoPtr
    /\ delta' = 0
    /\ nops' = TxRollback(snap).nops
    /\ last' = Op(op, key)
    /\ UNCHANGED <<hist, nreverts, tampered>>
    /\ UNCHANGED ExceptEntity

\* insert of an entity that is live: the statement fails
InsertFails(key) ==
    /\ pc = "ops"
    /\ nops < MaxOps
    /\ InsertConflict(rows, key, blk.number)
    /\ Rollback("rollback_insert", key)

Update(key) ==
    /\ pc = "ops"
    /\ nops < MaxOps
    /\ Find(rows, key, blk.number) # NULL
    /\ rows' = update(rows, key, Data(blk.number, nops), blk)
    /\ nops' = nops + 1
    /\ last' = Op("update", key)
    /\ UNCHANGED <<dep, pc, snap, blk, delta, hist, nreverts, tampered>>
    /\ UNCHANGED ExceptEntity

Delete(key) ==
    /\ pc = "ops"
    /\ nops < MaxOps
    /\ rows' = delete(rows, key, blk).rows
    /\ delta' = delta - delete(rows, key, blk).count
    /\ nops' = nops + 1
    /\ last' = Op("delete", key)
    /\ UNCHANGED <<dep, pc, snap, blk, hist, nreverts, tampered>>
    /\ UNCHANGED ExceptEntity

CountStep ==
    /\ pc = "ops"
    /\ dep' = update_entity_count(dep, rows, delta)
    /\ pc' = "counted"
    /\ last' = Op("count", NoKey)
    /\ UNCHANGED <<rows, snap, blk, delta, nops, hist, nreverts, tampered>>
    /\ UNCHANGED ExceptEntity

ForwardStep ==
    /\ pc = "counted"
    /\ dep' = forward_block_ptr(dep, blk)
    /\ pc' = "forwarded"
    /\ last' = Op("forward", NoKey)
    /\ UNCHANGED <<rows, snap, blk, delta, nops, hist, nreverts, tampered>>
    /\ UNCHANGED ExceptEntity

\* the closure returned Ok: COMMIT
Commit ==
    /\ pc = "forwarded"
    /\ pc' = "idle"
    /\ snap' = {}
    /\ blk' = NoPtr
    /\ delta' = 0
    /\ hist' = [hist EXCEPT ![blk.number] = {rows}]
    /\ last' = Op("commit", NoKey)
    /\ UNCHANGED <<rows, dep, nops, nreverts, tampered>>
    /\ UNCHANGED ExceptEntity

\* any statement of the closure can fail (connection lost, statement timeout)
StepFails ==
    /\ pc # "idle"
    /\ Rollback(IF pc = "ops" THEN "rollback_ops"
                ELSE IF pc = "counted" THEN "rollback_counted"
                ELSE "rollback_forwarded", NoKey)

\* A reorg: the block stream reverts committed block b; the head goes back to
\* the block committed before it. One transaction.
RevertBlock(b) ==
    /\ pc = "idle"
    /\ nreverts < MaxReverts
    /\ b \in Committed
    /\ LET reverted == revert_block(rows, BlockPtr(b))
           ptr == BlockPtr(PrevCommitted(b))
       IN  /\ rows' = reverted.rows
           /\ dep' = revert_block_ptr(
                        update_entity_count(dep, reverted.rows, reverted.count), ptr)
    /\ hist' = [n \in 0..MaxBlock |-> IF n >= b THEN {} ELSE hist[n]]
    /\ nreverts' = nreverts + 1
    /\ last' = Op("revert", NoKey)
    /\ UNCHANGED <<pc, snap, blk, delta, nops, tampered>>
    /\ UNCHANGED ExceptEntity

\* An operator forces a recount by setting entity_count to -1 (or NULL).
SetSentinel(s) ==
    /\ pc = "idle"
    /\ ~tampered
    /\ dep' = [dep EXCEPT !.entity_count = s]
    /\ tampered' = TRUE
    /\ last' = Op("sentinel", NoKey)
    /\ UNCHANGED <<rows, pc, snap, blk, delta, nops, hist, nreverts>>
    /\ UNCHANGED ExceptEntity

Next ==
    \/ \E b \in 1..MaxBlock : Begin(b)
    \/ \E k \in Keys : Insert(k)
    \/ \E k \in Keys : InsertFails(k)
    \/ \E k \in Keys : Update(k)
    \/ \E k \in Keys : Delete(k)
    \/ CountStep
    \/ ForwardStep
    \/ Commit
    \/ StepFails
    \/ \E b \in 1..MaxBlock : RevertBlock(b)

\* The same store with an operator who may force a recount.
SentinelNext ==
    \/ Next
    \/ \E s \in {NULL, {-1}} : SetSentinel(s)

\* ================================================================
\* Subgraph lifecycle (metadata.rs)
\* ================================================================
\* Most ids generate_entity_id() hands out before deploys stop.
MaxIds == 5

Names == {"g1", "g2"}
DeploymentIds == {"QmA", "QmB"}
NodeIds == {"node1", "node2"}
Modes == {"Instant", "Synced"}

SubgraphRow(id, name) ==
    [id |-> id, name |-> name, current_version |-> NULL, pending_version |-> NULL]
\* mutant: a version is identified by its subgraph, not by a fresh id
VersionRowPerSubgraph(id, sg, dpl) == [id |-> sg, subgraph |-> sg, deployment |-> dpl]
VersionRow(id, sg, dpl) == [id |-> id, subgraph |-> sg, deployment |-> dpl]
AssignmentRow(id, node_id) == [id |-> id, node_id |-> node_id]
Change(op, id) == [operation |-> op, entity_id |-> id]
\* history record of a call: its arguments, and for a deploy whether the
\* subgraph's current version was synced and what its pending version was
Call(op, name, id, node_id, mode, synced_current, prev_pending) ==
    [op |-> op, name |-> name, id |-> id, node_id |-> node_id, mode |-> mode,
     synced_current |-> synced_current, prev_pending |-> prev_pending]

\* the columns of a subgraph_deployment row the lifecycle can see: QmB has
\* failed before, QmA is healthy
LifecycleDeployment(is_failed) ==
    [synced |-> FALSE,
     failed |-> is_failed,
     health |-> IF is_failed THEN "failed" ELSE "healthy",
     fatal_error |-> IF is_failed THEN {"handler error"} ELSE NULL]

LInit ==
    /\ subgraph = {}
    /\ subgraph_version = {}
    /\ deployment = [d \in DeploymentIds |-> LifecycleDeployment(d = "QmB")]
    /\ assignment = {}
    /\ nextId = 1
    /\ ret = <<>>
    /\ call = Call("init", "", "", "", "", FALSE, NULL)

\* every order in which a query may return the elements of S
Orderings(S) ==
    {q \in [1..Cardinality(S) -> S] : \A i, j \in 1..Cardinality(S) : i # j => q[i] # q[j]}

\* the deployments some subgraph has as its current or pending version
Referenced(sg, sv) ==
    {v.deployment : v \in {w \in sv : \E s \in sg :
        {w.id} \in {s.current_version, s.pending_version}}}

\* mutant: the cleanup keeps only the deployments of current versions
remove_unused_assignments_current_only(sg, sv, asg) ==
    {a \in asg : ~\E x \in sg, v \in sv : x.current_version = {v.id} /\ v.deployment = a.id}
\* mutant: the cleanup deletes nothing
remove_unused_assignments_none(sg, sv, asg) == {}
\* remove_unused_assignments: the assignments the statement deletes
remove_unused_assignments(sg, sv, asg) == {a \in asg : a.id \notin Referenced(sg, sv)}
\* ... and the changes it returns for them, in the order the rows come back
RemoveChanges(removed) ==
    {[i \in DOMAIN q |-> Change("Remove", q[i])] : q \in Orderings({a.id : a \in removed})}

\* create_subgraph_version: the (id, current_version) of the subgraph `name`,
\* as .first().optional() returns it
\* mutant: the lookup by name finds nothing
SubgraphInfoMissing(sg, name) == {[found |-> FALSE, id |-> 0, current_version |-> NULL]}
SubgraphInfo(sg, name) ==
    LET found == {s \in sg : s.name = name}
    IN  IF found = {}
        THEN {[found |-> FALSE, id |-> 0, current_version |-> NULL]}
        ELSE {[found |-> TRUE, id |-> s.id, current_version |-> s.current_version]
                : s \in found}

\* mutant: a missing or unsynced current version counts as not synced, and so
\* does a synced one
current_never_synced(current_version, sv, dpl) == FALSE
\* mutant: any current version counts as synced
current_exists_only(current_version, sv, dpl) ==
    IF current_version = NULL
    THEN FALSE
    ELSE \E v \in sv : v.id = Val(current_version) /\ v.deployment \in DOMAIN dpl

\* is the deployment of version `current_version` synced; false without one
current_exists_and_synced(current_version, sv, dpl) ==
    IF current_version = NULL
    THEN FALSE
    ELSE \E v \in sv : /\ v.id = Val(current_version)
                       /\ v.deployment \in DOMAIN dpl
                       /\ dpl[v.deployment].synced

\* mutant: the new current version leaves the pending version in place
SwitchVersionKeepsPending(sg, subgraph_id, version_id, mode, current_synced) ==
    IF mode = "Instant" \/ ~current_synced
    THEN {IF s.id = subgraph_id
          THEN [s EXCEPT !.current_version = {version_id}]
          ELSE s : s \in sg}
    ELSE {IF s.id = subgraph_id
          THEN [s EXCEPT !.pending_version = {version_id}]
          ELSE s : s \in sg}

\* mutant: over a synced current version every deploy becomes pending
SwitchVersionIgnoresMode(sg, subgraph_id, version_id, mode, current_synced) ==
    IF ~current_synced
    THEN {IF s.id = subgraph_id
          THEN [s EXCEPT !.current_version = {version_id}, !.pending_version = NULL]
          ELSE s : s \in sg}
    ELSE {IF s.id = subgraph_id
          THEN [s EXCEPT !.pending_version = {version_id}]
          ELSE s : s \in sg}

\* make version_id the current or the pending version of subgraph_id
SwitchVersion(sg, subgraph_id, version_id, mode, current_synced) ==
    IF mode = "Instant" \/ ~current_synced
    THEN {IF s.id = subgraph_id
          THEN [s EXCEPT !.current_version = {version_id}, !.pending_version = NULL]
          ELSE s : s \in sg}
    ELSE {IF s.id = subgraph_id
          THEN [s EXCEPT !.pending_version = {version_id}]
          ELSE s : s \in sg}

\* the deployment of the current version of the subgraph `name` is synced
SyncedCurrent(name) ==
    \E s \in subgraph, v \in subgraph_version :
        /\ s.name = name
        /\ s.current_version = {v.id}
        /\ deployment[v.deployment].synced
\* the pending versions of the subgraphs called `name`
PendingOf(name) ==
    UNION {s.pending_version : s \in {x \in subgraph : x.name = name}}

\* mutant: no deploy inserts an assignment
new_assignment_never(asg, id) == FALSE
\* mutant: an assignment is inserted on every deploy
new_assignment_always(asg, id) == TRUE
\* create_subgraph_version: no assignment exists for the deployment `id`
new_assignment(asg, id) == ~\E a \in asg : a.id = id

\* mutant: the change for the new assignment is put first
ChangesSetFirst(changes, is_new, id) ==
    IF is_new THEN <<Change("Set", id)>> \o changes ELSE changes
\* mutant: a Set change is returned on every deploy
ChangesAlwaysSet(changes, is_new, id) == Append(changes, Change("Set", id))
\* create_subgraph_version: the changes it returns, those of the cleanup and
\* then the one for the assignment it created
Changes(changes, is_new, id) ==
    IF is_new THEN Append(changes, Change("Set", id)) ELSE changes

\* the statements of create_subgraph_version on the metadata tables
CreateSubgraphVersionTx(name, id, node_id, mode) ==
    /\ nextId <= MaxIds
    /\ \E info \in SubgraphInfo(subgraph, name) :
        LET subgraph_id == IF info.found THEN info.id ELSE nextId
            sg1 == IF info.found THEN subgraph
                   ELSE subgraph \cup {SubgraphRow(subgraph_id, name)}
            version_id == IF info.found THEN nextId ELSE nextId + 1
            current_synced ==
                current_exists_and_synced(info.current_version, subgraph_version, deployment)
            sv1 == subgraph_version \cup {VersionRow(version_id, subgraph_id, id)}
            is_new == new_assignment(assignment, id)
            asg1 == IF is_new
                    THEN assignment \cup {AssignmentRow(id, node_id)}
                    ELSE assignment
            sg2 == SwitchVersion(sg1, subgraph_id, version_id, mode,
                                 current_synced)
            removed == remove_unused_assignments(sg2, sv1, asg1)
        IN  /\ subgraph' = sg2
            /\ subgraph_version' = sv1
            /\ assignment' = asg1 \ removed
            /\ nextId' = version_id + 1
            /\ \E changes \in RemoveChanges(removed) :
                ret' = Changes(changes, is_new, id)
    /\ call' = Call("create", name, id, node_id, mode, SyncedCurrent(name),
                    PendingOf(name))
    /\ UNCHANGED deployment

create_subgraph_version(name, id, node_id, mode) ==
    /\ CreateSubgraphVersionTx(name, id, node_id, mode)
    /\ UNCHANGED ExceptLifecycle

\* mutant: every pending version is promoted, whatever its deployment
pending_subgraph_versions_all(sg, sv, id) ==
    {<<x.id, Val(x.pending_version)>> : x \in {y \in sg : y.pending_version # NULL}}
\* deployment_synced: the (subgraph, version) pairs to promote
pending_subgraph_versions(sg, sv, id) ==
    {<<s.id, v.id>> : s \in {x \in sg : x.pending_version # NULL},
                      v \in {w \in sv : w.deployment = id}}
        \cap {<<s.id, Val(s.pending_version)>> : s \in {x \in sg : x.pending_version # NULL}}

\* mutant: promotion that does not clear the pending version
PromoteKeepsPending(sg, pending) ==
    {IF \E p \in pending : p[1] = s.id
     THEN [s EXCEPT !.current_version = {(CHOOSE p \in pending : p[1] = s.id)[2]}]
     ELSE s : s \in sg}

\* the loop over pending_subgraph_versions: current := pending, pending := NULL
Promote(sg, pending) ==
    {IF \E p \in pending : p[1] = s.id
     THEN [s EXCEPT !.current_version = {(CHOOSE p \in pending : p[1] = s.id)[2]},
                    !.pending_version = NULL]
     ELSE s : s \in sg}

\* mutant: marking a deployment synced also marks it healthy
SetSyncedAndHealthy(row) ==
    [row EXCEPT !.synced = TRUE, !.failed = FALSE, !.health = "healthy",
                !.fatal_error = NULL]
\* .set(d::synced.eq(true))
SetSynced(row) == [row EXCEPT !.synced = TRUE]

\* the statements of deployment_synced on the metadata tables
DeploymentSyncedTx(id) ==
    /\ LET sg1 == Promote(subgraph,
                          pending_subgraph_versions(subgraph, subgraph_version, id))
           removed == remove_unused_assignments(sg1, subgraph_version, assignment)
       IN  /\ subgraph' = sg1
           /\ assignment' = assignment \ removed
           /\ ret' \in RemoveChanges(removed)
    /\ deployment' = [deployment EXCEPT ![id] = SetSynced(deployment[id])]
    /\ call' = Call("synced", "", id, "", "", FALSE, NULL)
    /\ UNCHANGED <<subgraph_version, nextId>>

deployment_synced(id) ==
    /\ DeploymentSyncedTx(id)
    /\ UNCHANGED ExceptLifecycle

\* the statements of remove_subgraph on the metadata tables
RemoveSubgraphTx(name) ==
    /\ \E info \in SubgraphInfo(subgraph, name) :
        IF info.found
        THEN LET sv1 == {v \in subgraph_version : v.subgraph # info.id}
                 sg1 == {s \in subgraph : s.id # info.id}
                 removed == remove_unused_assignments(sg1, sv1, assignment)
             IN  /\ subgraph_version' = sv1
                 /\ subgraph' = sg1
                 /\ assignment' = assignment \ removed
                 /\ ret' \in RemoveChanges(removed)
        ELSE /\ ret' = <<>>
             /\ UNCHANGED <<subgraph, subgraph_version, assignment>>
    /\ call' = Call("remove", name, "", "", "", FALSE, NULL)
    /\ UNCHANGED <<deployment, nextId>>

remove_subgraph(name) ==
    /\ RemoveSubgraphTx(name)
    /\ UNCHANGED ExceptLifecycle

LifecycleNext ==
    \/ \E n \in Names, id \in DeploymentIds, node \in NodeIds, m \in Modes :
            create_subgraph_version(n, id, node, m)
    \/ \E id \in DeploymentIds : deployment_synced(id)
    \/ \E n \in Names : remove_subgraph(n)

\* the node the provider was constructed with, which its deploys name
ProviderNode == "node1"

\* ------------------------------------------------ calls that return an error
\* calls fail only while the ids handed out are below this bound
MaxFailIds == 3
\* A statement of a lifecycle call fails (`?` returns the error): the
\* statements before it have run, the others have not. `failing` is the
\* position of the statement that fails.
create_subgraph_version_fails(name, id, node_id, mode, failing) ==
    /\ nextId <= MaxFailIds
    /\ \E info \in SubgraphInfo(subgraph, name) :
        LET subgraph_id == IF info.found THEN info.id ELSE nextId
            sg1 == IF info.found THEN subgraph
                   ELSE subgraph \cup {SubgraphRow(subgraph_id, name)}
            version_id == IF info.found THEN nextId ELSE nextId + 1
            current_synced ==
                current_exists_and_synced(info.current_version, subgraph_version, deployment)
            sv1 == subgraph_version \cup {VersionRow(version_id, subgraph_id, id)}
            is_new == new_assignment(assignment, id)
            asg1 == IF is_new
                    THEN assignment \cup {AssignmentRow(id, node_id)}
                    ELSE assignment
            sg2 == SwitchVersion(sg1, subgraph_id, version_id, mode,
                                 current_synced)
        IN  \* 1: create_subgraph, 2: insert the version, 3: insert the
            \* assignment, 4: switch the version, 5: remove_unused_assignments
            /\ subgraph' = IF failing > 4 THEN sg2 ELSE IF failing > 1 THEN sg1 ELSE subgraph
            /\ subgraph_version' = IF failing > 2 THEN sv1 ELSE subgraph_version
            /\ assignment' = IF failing > 3 THEN asg1 ELSE assignment
            /\ nextId' = version_id + 1
    /\ ret' = <<>>
    /\ call' = Call("create_err", name, id, node_id, mode, FALSE, NULL)
    /\ UNCHANGED deployment
    /\ UNCHANGED ExceptLifecycle

deployment_synced_fails(id, failing) ==
    \* 1: the promotion, 2: remove_unused_assignments, 3: set synced
    /\ nextId <= MaxFailIds
    /\ LET sg1 == Promote(subgraph,
                          pending_subgraph_versions(subgraph, subgraph_version, id))
           removed == remove_unused_assignments(sg1, subgraph_version, assignment)
       IN  /\ subgraph' = IF failing > 1 THEN sg1 ELSE subgraph
           /\ assignment' = IF failing > 2 THEN assignment \ removed ELSE assignment
    /\ ret' = <<>>
    /\ call' = Call("synced_err", "", id, "", "", FALSE, NULL)
    /\ UNCHANGED <<subgraph_version, deployment, nextId>>
    /\ UNCHANGED ExceptLifecycle

remove_subgraph_fails(name, failing) ==
    \* 1: delete the versions, 2: delete the subgraph, 3: remove_unused_assignments
    /\ nextId <= MaxFailIds
    /\ \E info \in SubgraphInfo(subgraph, name) :
        /\ info.found \/ failing = 1
        /\ subgraph_version' = IF failing > 1
                               THEN {v \in subgraph_version : v.subgraph # info.id}
                               ELSE subgraph_version
        /\ subgraph' = IF failing > 2
                       THEN {x \in subgraph : x.id # info.id}
                       ELSE subgraph
    /\ ret' = <<>>
    /\ call' = Call("remove_err", name, "", "", "", FALSE, NULL)
    /\ UNCHANGED <<assignment, deployment, nextId>>
    /\ UNCHANGED ExceptLifecycle

LifecycleErrorNext ==
    \/ \E n \in Names, id \in DeploymentIds, m \in Modes :
            create_subgraph_version(n, id, ProviderNode, m)
    \/ \E id \in DeploymentIds : deployment_synced(id)
    \/ \E n \in Names : remove_subgraph(n)
    \/ \E n \in Names, id \in DeploymentIds, m \in Modes, failing \in 1..5 :
            create_subgraph_version_fails(n, id, ProviderNode, m, failing)
    \/ \E id \in DeploymentIds, failing \in 1..3 : deployment_synced_fails(id, failing)
    \/ \E n \in Names, failing \in 1..3 : remove_subgraph_fails(n, failing)

\* ================================================================
\* Lifecycle provider: deploy, remove and list over the metadata operations,
\* and the two event streams
\* ================================================================
SubgraphStart(id) == [kind |-> "SubgraphStart", id |-> id]
SubgraphStop(id) == [kind |-> "SubgraphStop", id |-> id]
SchemaAdded(id) == [kind |-> "SchemaAdded", id |-> id]
SchemaRemoved(id) == [kind |-> "SchemaRemoved", id |-> id]

\* The provider turns the assignment changes of a call into events, in the
\* order of the changes: a removed assignment stops the deployment, a new one
\* starts it.
ProviderEvents(changes) ==
    [i \in DOMAIN changes |->
        IF changes[i].operation = "Set"
        THEN SubgraphStart(changes[i].entity_id)
        ELSE SubgraphStop(changes[i].entity_id)]

\* the schema events that mirror a sequence of provider events
SchemaEvents(events) ==
    [i \in DOMAIN events |->
        IF events[i].kind = "SubgraphStart"
        THEN SchemaAdded(events[i].id)
        ELSE SchemaRemoved(events[i].id)]

\* both streams take the events of the changes a call returned
Emit(changes) ==
    /\ provider_events' = provider_events \o ProviderEvents(changes)
    /\ schema_events' = schema_events \o SchemaEvents(ProviderEvents(changes))

\* list(): the (name, deployment) of every subgraph's current version
list(sg, sv) ==
    {<<p[1].name, p[2].deployment>> :
        p \in {q \in sg \X sv : q[1].current_version = {q[2].id}}}

\* mutant: remove of an unknown name succeeds
RemoveResultAlwaysOk(sg, name) == "ok"
\* remove(name): an error when no subgraph has the name
RemoveResult(sg, name) ==
    IF \E s \in sg : s.name = name THEN "ok" ELSE "err"

PInit ==
    /\ provider_events = <<>>
    /\ schema_events = <<>>
    /\ result = "ok"
    /\ deployed = [n \in Names |-> "never"]
    /\ instant_only = TRUE

deploy(name, id, node_id, mode) ==
    /\ CreateSubgraphVersionTx(name, id, node_id, mode)
    /\ Emit(ret')
    /\ result' = "ok"
    /\ deployed' = [deployed EXCEPT ![name] = id]
    /\ instant_only' = (instant_only /\ mode = "Instant")
    /\ UNCHANGED ExceptProvider

remove(name) ==
    /\ RemoveSubgraphTx(name)
    /\ Emit(ret')
    /\ result' = RemoveResult(subgraph, name)
    /\ deployed' = IF RemoveResult(subgraph, name) = "ok"
                   THEN [deployed EXCEPT ![name] = "removed"]
                   ELSE deployed
    /\ UNCHANGED instant_only
    /\ UNCHANGED ExceptProvider

\* the store reports a deployment as synced; the provider sees the changes
synced(id) ==
    /\ DeploymentSyncedTx(id)
    /\ Emit(ret')
    /\ UNCHANGED <<result, deployed, instant_only>>
    /\ UNCHANGED ExceptProvider

ProviderNext ==
    \/ \E n \in Names, id \in DeploymentIds, m \in Modes :
            deploy(n, id, ProviderNode, m)
    \/ \E n \in Names : remove(n)
    \/ \E id \in DeploymentIds : synced(id)

\* ================================================================
\* Head movement on the deployment table (metadata.rs)
\* ================================================================
\* Most revert_block_ptr calls on one deployment.
MaxReorgs == 3

Hashes == {"0xaa", "0xbb"}
\* the block pointers handed to forward_block_ptr and revert_block_ptr
HeadPtrs == {[number |-> n, hash |-> h] : n \in 1..MaxBlock, h \in Hashes}

\* a subgraph_deployment row without a head and with zeroed reorg counters
DeploymentRow(is_synced, is_failed) ==
    [failed |-> is_failed,
     health |-> IF is_failed THEN "failed" ELSE "healthy",
     synced |-> is_synced,
     entity_count |-> {0},
     latest_ethereum_block_number |-> NULL,
     latest_ethereum_block_hash |-> NULL,
     reorg_count |-> 0,
     current_reorg_depth |-> 0,
     max_reorg_depth |-> 0]

HeadCall(op, id, ptr) == [op |-> op, id |-> id, ptr |-> ptr]

\* the runs of consecutive revert_block_ptr calls on one deployment
NoRuns == [lengths |-> <<>>, open |-> FALSE]
\* a forward_block_ptr ends the run
RunClosed(r) == [r EXCEPT !.open = FALSE]
\* a revert_block_ptr lengthens the run, or begins one
RunGrown(r) ==
    IF r.open
    THEN [r EXCEPT !.lengths[Len(r.lengths)] = r.lengths[Len(r.lengths)] + 1]
    ELSE [lengths |-> Append(r.lengths, 1), open |-> TRUE]
RECURSIVE SumOf(_)
SumOf(q) == IF q = <<>> THEN 0 ELSE Head(q) + SumOf(Tail(q))
RECURSIVE MaxOf(_)
MaxOf(q) == IF q = <<>> THEN 0 ELSE Max2(Head(q), MaxOf(Tail(q)))

\* newly created deployments
HInit ==
    /\ heads = [id \in DeploymentIds |-> DeploymentRow(FALSE, FALSE)]
    /\ hcall = HeadCall("init", "", NoPtr)
    /\ reorg_runs = [id \in DeploymentIds |-> NoRuns]

\* mutant: the statement without its filter on the id
UpdateAllDeployments(tbl, id, row) == [d \in DOMAIN tbl |-> row]
\* update(d::table.filter(d::id.eq(id))).set(...): only the row of `id` changes
UpdateDeployment(tbl, id, row) == [tbl EXCEPT ![id] = row]

ForwardBlockPtr(id, ptr) ==
    /\ heads' = UpdateDeployment(heads, id, forward_block_ptr(heads[id], ptr))
    /\ hcall' = HeadCall("forward", id, ptr)
    /\ reorg_runs' = [reorg_runs EXCEPT ![id] = RunClosed(reorg_runs[id])]
    /\ UNCHANGED ExceptHead

RevertBlockPtr(id, ptr) ==
    /\ heads[id].reorg_count < MaxReorgs
    /\ heads' = UpdateDeployment(heads, id, revert_block_ptr(heads[id], ptr))
    /\ hcall' = HeadCall("revert", id, ptr)
    /\ reorg_runs' = [reorg_runs EXCEPT ![id] = RunGrown(reorg_runs[id])]
    /\ UNCHANGED ExceptHead

HeadNext ==
    \/ \E id \in DeploymentIds, ptr \in HeadPtrs : ForwardBlockPtr(id, ptr)
    \/ \E id \in DeploymentIds, ptr \in HeadPtrs : RevertBlockPtr(id, ptr)

\* ================================================================
\* The connection pool (connection_pool.rs): an r2d2 pool of pool_size
\* connections whose events drive the EventHandler. Threads call Pool::get,
\* hold the connection and drop it. A handler runs in the thread the event
\* belongs to; its statements are separate steps wherever another thread can
\* run in between (the atomic gauge, the last_log lock, the wait_stats lock).
\* ================================================================
PoolThreads == {"t1", "t2", "t3"}
\* max_size(pool_size)
pool_size == 2
\* seconds the clock advances in one tick
TickSeconds == 10
\* most clock ticks in one behaviour
MaxTicks == 4
\* most Pool::get calls in one behaviour
MaxGets == 3
\* Duration::from_secs(10) of add_wait_time
LogInterval == 10
timeout_seconds(test) == IF test THEN 30 ELSE 6 * 60 * 60
\* Instant::elapsed
elapsed(instant) == now - instant

\* MovingStats is kept as the number of samples added to it
NoStats == 0
\* MovingStats::average: None for no samples, else Some average (its value is
\* not modelled)
average(stats) == IF stats = 0 THEN NULL ELSE {"avg"}

CInit(test) ==
    /\ pool_conns = pool_size
    /\ pool_idle = pool_size
    /\ gauge = 0
    /\ wait_stats = NoStats
    /\ last_log = 0
    /\ now = 0
    /\ upc = [t \in PoolThreads |-> "out"]
    /\ started = [t \in PoolThreads |-> 0]
    /\ should_log = [t \in PoolThreads |-> FALSE]
    /\ outcome = [t \in PoolThreads |-> "none"]
    /\ emitted = <<>>
    /\ errors = <<>>
    /\ test_build = test
    /\ nticks = 0
    /\ ngets = 0

\* no thread is inside Pool::get's bookkeeping, a handler or put_back
Quiescent == \A t \in PoolThreads : upc[t] \in {"out", "waiting", "holding"}
\* the end of the wait of a thread in Pool::get
Deadline(t) == started[t] + timeout_seconds(test_build)

\* a thread calls Pool::get and starts to wait
Get(t) ==
    /\ upc[t] = "out"
    /\ ngets < MaxGets
    /\ upc' = [upc EXCEPT ![t] = "waiting"]
    /\ started' = [started EXCEPT ![t] = now]
    /\ outcome' = [outcome EXCEPT ![t] = "none"]
    /\ ngets' = ngets + 1
    /\ UNCHANGED <<pool_conns, pool_idle, gauge, wait_stats, last_log, now, should_log, emitted, errors, test_build, nticks>>
    /\ UNCHANGED ExceptPool

\* the pool hands an idle connection to a waiting thread: CheckoutEvent
TakeConnection(t) ==
    /\ upc[t] = "waiting"
    /\ pool_idle > 0
    /\ pool_idle' = pool_idle - 1
    /\ upc' = [upc EXCEPT ![t] = "checkout"]
    /\ UNCHANGED <<pool_conns, gauge, wait_stats, last_log, now, started, should_log,
                   outcome, emitted, errors, test_build, nticks, ngets>>
    /\ UNCHANGED ExceptPool

\* mutant: a gauge that counts established connections
GaugeOnAcquire(g) == g + 1
\* handle_acquire does nothing
GaugeAfterAcquire(g) == g
\* mutant: a timeout counted as a checkout that ended
GaugeOnTimeout(g) == g - 1
\* handle_timeout does not touch the gauge
GaugeAfterTimeout(g) == g

\* handle_checkout, first statement: self.gauge.inc()
handle_checkout(t) ==
    /\ upc[t] = "checkout"
    /\ gauge' = gauge + 1
    /\ upc' = [upc EXCEPT ![t] = "log_checkout"]
    /\ UNCHANGED <<pool_conns, pool_idle, wait_stats, last_log, now, started,
                   should_log, outcome, emitted, errors, test_build, nticks, ngets>>
    /\ UNCHANGED ExceptPool

\* the wait of a thread ran out: TimeoutEvent. handle_timeout begins; its
\* first statement is add_wait_time(event.timeout()).
handle_timeout(t) ==
    /\ upc[t] = "waiting"
    /\ now >= Deadline(t)
    /\ gauge' = GaugeAfterTimeout(gauge)
    /\ upc' = [upc EXCEPT ![t] = "log_timeout"]
    /\ UNCHANGED <<pool_conns, pool_idle, wait_stats, last_log, now, started,
                   should_log, outcome, emitted, errors, test_build, nticks, ngets>>
    /\ UNCHANGED ExceptPool

\* mutant: the interval is measured from a last_log that is never moved
LastLogKept(ll, log) == ll
\* *last_log = Instant::now() when the average is to be logged
LastLogAfter(ll, log) == IF log THEN now ELSE ll
\* last_log.elapsed() > Duration::from_secs(10)
ShouldLog(ll) == elapsed(ll) > LogInterval

\* add_wait_time, first block: should_log under the last_log write lock
add_wait_time_last_log(t) ==
    /\ upc[t] \in {"log_checkout", "log_timeout"}
    /\ should_log' = [should_log EXCEPT ![t] = ShouldLog(last_log)]
    /\ last_log' = LastLogAfter(last_log, ShouldLog(last_log))
    /\ upc' = [upc EXCEPT ![t] = IF upc[t] = "log_checkout" THEN "stats_checkout"
                                 ELSE "stats_timeout"]
    /\ UNCHANGED <<pool_conns, pool_idle, gauge, wait_stats, now, started,
                   outcome, emitted, errors, test_build, nticks, ngets>>
    /\ UNCHANGED ExceptPool

\* wait_stats.add(duration)
AddSample(stats, is_timeout) == stats + 1
\* the line info!(.., "Average connection wait time"; "wait_ms" => ..)
WaitLine(avg) == [at |-> now, wait_ms |-> avg]
\* the line error!(.., "Connection checkout timed out"; "wait_ms" => ..)
TimeoutLine(t) == [wait_ms |-> timeout_seconds(test_build) * 1000]

\* add_wait_time, second block and the rest of the handler: the sample is
\* added under the wait_stats write lock, the average is logged if should_log;
\* handle_checkout then returns and Pool::get returns the connection,
\* handle_timeout logs the timeout and Pool::get returns the error.
add_wait_time_stats(t) ==
    /\ upc[t] \in {"stats_checkout", "stats_timeout"}
    /\ wait_stats' = AddSample(wait_stats, upc[t] = "stats_timeout")
    /\ emitted' = IF should_log[t] /\ average(wait_stats') # NULL
                  THEN Append(emitted, WaitLine(Val(average(wait_stats'))))
                  ELSE emitted
    /\ should_log' = [should_log EXCEPT ![t] = FALSE]
    /\ started' = [started EXCEPT ![t] = 0]
    /\ IF upc[t] = "stats_checkout"
       THEN /\ upc' = [upc EXCEPT ![t] = "holding"]
            /\ outcome' = [outcome EXCEPT ![t] = "ok"]
            /\ errors' = errors
       ELSE /\ upc' = [upc EXCEPT ![t] = "out"]
            /\ outcome' = [outcome EXCEPT ![t] = "err"]
            /\ errors' = Append(errors, TimeoutLine(t))
    /\ UNCHANGED <<pool_conns, pool_idle, gauge, last_log, now, test_build, nticks, ngets>>
    /\ UNCHANGED ExceptPool

\* the thread drops its connection: CheckinEvent, handled before the
\* connection is back in the pool. handle_checkin: self.gauge.dec()
handle_checkin(t) ==
    /\ upc[t] = "holding"
    /\ gauge' = gauge - 1
    /\ upc' = [upc EXCEPT ![t] = "checkin"]
    /\ UNCHANGED <<pool_conns, pool_idle, wait_stats, last_log, now, started,
                   should_log, outcome, emitted, errors, test_build, nticks, ngets>>
    /\ UNCHANGED ExceptPool

\* the pool takes the connection back, or closes it if it is broken
PutBack(t, broken) ==
    /\ upc[t] = "checkin"
    /\ IF broken
       THEN pool_conns' = pool_conns - 1 /\ pool_idle' = pool_idle
       ELSE pool_idle' = pool_idle + 1 /\ pool_conns' = pool_conns
    /\ upc' = [upc EXCEPT ![t] = "out"]
    /\ outcome' = [outcome EXCEPT ![t] = "none"]
    /\ UNCHANGED <<gauge, wait_stats, last_log, now, started, should_log,
                   emitted, errors, test_build, nticks, ngets>>
    /\ UNCHANGED ExceptPool

\* the pool establishes a connection: AcquireEvent, handle_acquire
handle_acquire ==
    /\ pool_conns < pool_size
    /\ pool_conns' = pool_conns + 1
    /\ pool_idle' = pool_idle + 1
    /\ gauge' = GaugeAfterAcquire(gauge)
    /\ UNCHANGED <<wait_stats, last_log, now, upc, started, should_log,
                   outcome, emitted, errors, test_build, nticks, ngets>>
    /\ UNCHANGED ExceptPool

\* the pool closes an idle connection: ReleaseEvent, handle_release
handle_release ==
    /\ pool_idle > 0
    /\ pool_conns' = pool_conns - 1
    /\ pool_idle' = pool_idle - 1
    /\ UNCHANGED <<gauge, wait_stats, last_log, now, upc, started, should_log,
                   outcome, emitted, errors, test_build, nticks, ngets>>
    /\ UNCHANGED ExceptPool

\* Time passes. A handler and the pool's bookkeeping take far less than a
\* tick: the clock moves only between them.
Tick ==
    /\ Quiescent
    /\ nticks < MaxTicks
    /\ now' = now + TickSeconds
    /\ nticks' = nticks + 1
    /\ UNCHANGED <<pool_conns, pool_idle, gauge, wait_stats, last_log, upc, started, should_log, outcome, emitted, errors, test_build, ngets>>
    /\ UNCHANGED ExceptPool

\* Time passes until the wait of a thread runs out, no connection being
\* idle in the meantime.
Sleep(t) ==
    /\ Quiescent
    /\ upc[t] = "waiting"
    /\ pool_idle = 0
    /\ now < Deadline(t)
    /\ now' = Deadline(t)
    /\ UNCHANGED <<pool_conns, pool_idle, gauge, wait_stats, last_log, upc, started, should_log, outcome, emitted, errors, test_build, nticks,
                   ngets>>
    /\ UNCHANGED ExceptPool

\* the pool and its users; time passes in waits that run out
PoolNext ==
    \/ \E t \in PoolThreads : Get(t)
    \/ \E t \in PoolThreads : TakeConnection(t)
    \/ \E t \in PoolThreads : handle_checkout(t)
    \/ \E t \in PoolThreads : handle_timeout(t)
    \/ \E t \in PoolThreads : add_wait_time_last_log(t)
    \/ \E t \in PoolThreads : add_wait_time_stats(t)
    \/ \E t \in PoolThreads : handle_checkin(t)
    \/ \E t \in PoolThreads, broken \in BOOLEAN : PutBack(t, broken)
    \/ handle_acquire
    \/ handle_release
    \/ \E t \in PoolThreads : Sleep(t)

\* acquisitions from a pool whose connections stay open; time passes in
\* waits that run out
AcquireNext ==
    \/ \E t \in PoolThreads : Get(t)
    \/ \E t \in PoolThreads : TakeConnection(t)
    \/ \E t \in PoolThreads : handle_checkout(t)
    \/ \E t \in PoolThreads : handle_timeout(t)
    \/ \E t \in PoolThreads : add_wait_time_last_log(t)
    \/ \E t \in PoolThreads : add_wait_time_stats(t)
    \/ \E t \in PoolThreads : handle_checkin(t)
    \/ \E t \in PoolThreads : PutBack(t, FALSE)
    \/ \E t \in PoolThreads : Sleep(t)

\* the handlers of a pool whose connections stay open, on a ticking clock
WaitLogNext ==
    \/ \E t \in PoolThreads : Get(t)
    \/ \E t \in PoolThreads : TakeConnection(t)
    \/ \E t \in PoolThreads : handle_checkout(t)
    \/ \E t \in PoolThreads : handle_timeout(t)
    \/ \E t \in PoolThreads : add_wait_time_last_log(t)
    \/ \E t \in PoolThreads : add_wait_time_stats(t)
    \/ \E t \in PoolThreads : handle_checkin(t)
    \/ \E t \in PoolThreads : PutBack(t, FALSE)
    \/ Tick

\* ================================================================
\* Subgraph instances that need a store connection for every block. What
\* becomes of an instance whose checkout timed out is stated where the
\* timeout is configured (connection_pool.rs, create_connection_pool): "if
\* we don't get a connection within the timeout, ultimately subgraphs get
\* marked as failed".
\* ================================================================
Instance(block, running, failed) ==
    [block |-> block, running |-> running, failed |-> failed]
RInit == instance = [t \in PoolThreads |-> Instance(1, TRUE, FALSE)]

\* a running instance asks the pool for a connection
InstanceGet(t) ==
    /\ instance[t].running
    /\ upc[t] = "out"
    /\ outcome[t] # "err"
    /\ Get(t)

\* with its connection the instance commits the block and goes to the next
CommitBlock(t) ==
    /\ instance[t].running
    /\ upc[t] = "holding"
    /\ instance[t].block < MaxBlock
    /\ instance' = [instance EXCEPT ![t].block = @ + 1]
    /\ UNCHANGED cvars
    /\ UNCHANGED ExceptInstance

\* the checkout timed out: the error ends the instance and its deployment is
\* marked as failed
PoolTimeoutFails(t) ==
    /\ instance[t].running
    /\ upc[t] = "out"
    /\ outcome[t] = "err"
    /\ instance' = [instance EXCEPT ![t] = Instance(@.block, FALSE, TRUE)]
    /\ UNCHANGED cvars
    /\ UNCHANGED ExceptInstance

InstanceNext ==
    \/ \E t \in PoolThreads : InstanceGet(t)
    \/ \E t \in PoolThreads : TakeConnection(t)
    \/ \E t \in PoolThreads : handle_checkout(t)
    \/ \E t \in PoolThreads : handle_timeout(t)
    \/ \E t \in PoolThreads : add_wait_time_last_log(t)
    \/ \E t \in PoolThreads : add_wait_time_stats(t)
    \/ \E t \in PoolThreads : CommitBlock(t)
    \/ \E t \in PoolThreads : handle_checkin(t)
    \/ \E t \in PoolThreads : PutBack(t, FALSE)
    \/ \E t \in PoolThreads : Sleep(t)
    \/ \E t \in PoolThreads : PoolTimeoutFails(t)

\* ================================================================
\* The AssemblyScript ABI (thegraph-runtime/src/asc_abi/to_from.rs): host
\* values are written to the guest heap as AssemblyScript objects
\* (ToAscObj, heap.asc_new) and read back (FromAscObj, heap.asc_get). The
\* heap is the sequence of objects allocated so far; a pointer is an index.
\* Rust types are named by strings: "H160", "U256", "bytes" ([u8], Vec<u8>),
\* "words" ([u64]), "string" (str, String), "strings" ([String]), "tokens"
\* ([Token], Vec<Token>), "Token", and the arrays "[u8; 20]", "[u64; 4]".
\* ================================================================
\* most tokens put into an array next to the one it wraps, plus one
MaxLen == 2
\* deepest nesting of token arrays
MaxDepth == 2

\* a conversion returns its value or panics (assert_eq!, expect); a Result
\* is Ok or Err
Ok(v) == [ok |-> TRUE, panic |-> FALSE, v |-> v]
Err(e) == [ok |-> FALSE, panic |-> FALSE, v |-> e]
Panic(msg) == [ok |-> FALSE, panic |-> TRUE, v |-> msg]

ArrayBuffer(content) == [cls |-> "ArrayBuffer", content |-> content]
AscString(content) == [cls |-> "AscString", content |-> content]
Array(buffer) == [cls |-> "Array", buffer |-> buffer]
AscEnum(discr, payload) == [cls |-> "AscEnum", discr |-> discr, payload |-> payload]
Token(kind, v) == [kind |-> kind, v |-> v]
NoObj == [cls |-> "none"]
NoResult == [ok |-> FALSE, panic |-> FALSE, v |-> "none"]

\* str::encode_utf16: a char above U+FFFF becomes a surrogate pair
RECURSIVE encode_utf16(_)
encode_utf16(str) ==
    IF str = <<>> THEN <<>>
    ELSE LET c == Head(str)
         IN  (IF c < 65536 THEN <<c>>
              ELSE <<55296 + ((c - 65536) \div 1024), 56320 + ((c - 65536) % 1024)>>)
             \o encode_utf16(Tail(str))
IsHighSurrogate(u) == u >= 55296 /\ u <= 56319
IsLowSurrogate(u) == u >= 56320 /\ u <= 57343
\* String::from_utf16: Err for an unpaired surrogate
RECURSIVE from_utf16(_)
from_utf16(units) ==
    IF units = <<>> THEN Ok(<<>>)
    ELSE LET u == Head(units)
         IN  IF ~IsHighSurrogate(u) /\ ~IsLowSurrogate(u)
             THEN LET r == from_utf16(Tail(units))
                  IN  IF r.ok THEN Ok(<<u>> \o r.v) ELSE r
             ELSE IF IsHighSurrogate(u) /\ Len(units) >= 2 /\ IsLowSurrogate(units[2])
             THEN LET r == from_utf16(Tail(Tail(units)))
                  IN  IF r.ok
                      THEN Ok(<<65536 + (u - 55296) * 1024 + (units[2] - 56320)>> \o r.v)
                      ELSE r
             ELSE Err("FromUtf16Error")
\* Result::expect
expect(r, msg) == IF r.ok THEN r ELSE Panic(msg)

\* TokenDiscr::get_discr: the discriminant named after the variant
get_discr(token) == token.kind
\* the Rust type of the payload a token variant points at
PayloadType(discr) ==
    CASE discr = "Address" -> "H160"
      [] discr \in {"FixedBytes", "Bytes"} -> "bytes"
      [] discr \in {"Int", "Uint"} -> "U256"
      [] discr = "String" -> "string"
      [] discr \in {"FixedArray", "Array"} -> "tokens"
\* the element type of an array of pointers
ElemType(T) == IF T = "tokens" THEN "Token" ELSE "string"

RECURSIVE ToAscObj(_, _, _)
RECURSIVE asc_new(_, _, _)
RECURSIVE AscNewAll(_, _, _)
\* heap.asc_new(x): the object of x is allocated; the pointer to it
asc_new(T, x, heap) ==
    LET r == ToAscObj(T, x, heap)
    IN  [ptr |-> Len(r.heap) + 1, heap |-> Append(r.heap, r.obj)]
\* self.iter().map(|x| heap.asc_new(x)).collect()
AscNewAll(T, xs, heap) ==
    IF xs = <<>> THEN [ptrs |-> <<>>, heap |-> heap]
    ELSE LET h == asc_new(T, Head(xs), heap)
             rest == AscNewAll(T, Tail(xs), h.heap)
         IN  [ptrs |-> <<h.ptr>> \o rest.ptrs, heap |-> rest.heap]
\* to_asc_obj of every type of to_from.rs
ToAscObj(T, x, heap) ==
    CASE T \in {"bytes", "words"} -> [obj |-> ArrayBuffer(x), heap |-> heap]
      [] T = "H160" -> ToAscObj("bytes", x, heap)
      [] T = "U256" -> ToAscObj("words", x, heap)
      [] T = "string" -> [obj |-> AscString(encode_utf16(x)), heap |-> heap]
      [] T \in {"tokens", "strings"} ->
            LET content == AscNewAll(ElemType(T), x, heap)
                buffer == Append(content.heap, ArrayBuffer(content.ptrs))
            IN  [obj |-> Array(Len(buffer)), heap |-> buffer]
      [] T = "Token" ->
            IF x.kind = "Bool"
            THEN [obj |-> AscEnum(get_discr(x), IF x.v THEN 1 ELSE 0), heap |-> heap]
            ELSE LET p == asc_new(PayloadType(x.kind), x.v, heap)
                 IN  [obj |-> AscEnum(get_discr(x), p.ptr), heap |-> p.heap]

\* mutant: the discriminant decides the variant, Uint included
TokenVariantOfDiscr(discr) == discr
\* mutant: a fixed array read back as a dynamic one
TokenVariantDynamic(discr) ==
    IF discr = "Uint" THEN "Int" ELSE IF discr = "FixedArray" THEN "Array" ELSE discr
\* the variant each arm of the match builds: TokenDiscr::Uint => Token::Int
TokenVariant(discr) == IF discr = "Uint" THEN "Int" ELSE discr

RECURSIVE FromAscObj(_, _, _)
RECURSIVE asc_get(_, _, _)
\* heap.asc_get(ptr): the object at ptr, converted
asc_get(T, ptr, heap) == FromAscObj(T, heap[ptr], heap)
\* from_asc_obj of every type of to_from.rs
FromAscObj(T, obj, heap) ==
    CASE T = "[u8; 20]" ->
            IF Len(obj.content) # 20
            THEN Panic("wrong ArrayBuffer length, expected 20")
            ELSE Ok(obj.content)
      [] T = "[u64; 4]" ->
            IF Len(obj.content) # 4
            THEN Panic("wrong ArrayBuffer length, expected 4")
            ELSE Ok(obj.content)
      [] T \in {"bytes", "words"} -> Ok(obj.content)
      [] T = "H160" -> FromAscObj("[u8; 20]", obj, heap)
      [] T = "U256" -> FromAscObj("[u64; 4]", obj, heap)
      [] T = "string" -> expect(from_utf16(obj.content), "asc string was not UTF-16")
      [] T \in {"tokens", "strings"} ->
            LET ptrs == heap[obj.buffer].content
                rs == [i \in 1..Len(ptrs) |-> asc_get(ElemType(T), ptrs[i], heap)]
                bad == {i \in 1..Len(ptrs) : ~rs[i].ok}
            IN  IF bad = {} THEN Ok([i \in 1..Len(ptrs) |-> rs[i].v])
                ELSE rs[CHOOSE i \in bad : \A j \in bad : i <= j]
      [] T = "Token" ->
            IF obj.discr = "Bool" THEN Ok(Token("Bool", obj.payload # 0))
            ELSE LET r == asc_get(PayloadType(obj.discr), obj.payload, heap)
                 IN  IF r.ok THEN Ok(Token(TokenVariant(obj.discr), r.v)) ELSE r

\* ------------------------------------------------ the values converted
Repeat(b, n) == [i \in 1..n |-> b]
Ramp(n) == [i \in 1..n |-> (i * 37) % 256]
Addresses == {Repeat(0, 20), Ramp(20)}
\* four u64 words, least significant first
Words == {<<0, 0, 0, 0>>, <<1, 0, 0, 0>>, <<0, 0, 0, 1>>, <<2147483647, 1, 0, 2147483647>>}
ByteSeqs == {<<>>, <<255, 0, 1>>, Ramp(32)}
\* strings as sequences of chars: "", "Hi", e-acute and the euro sign, an
\* emoji above U+FFFF alone and between letters, U+FFFF
Strings == {<<>>, <<72, 105>>, <<233, 8364>>, <<128512>>, <<65, 128512, 66>>, <<65535>>}
TokenKinds ==
    {"Address", "FixedBytes", "Bytes", "Int", "Uint", "Bool", "String", "FixedArray", "Array"}
\* the payloads a token of one variant is built from
PayloadsOf(kind) ==
    CASE kind = "Address" -> Addresses
      [] kind \in {"FixedBytes", "Bytes"} -> {<<>>, Ramp(32)}
      [] kind \in {"Int", "Uint"} -> {<<1, 0, 0, 0>>, <<2147483647, 1, 0, 2147483647>>}
      [] kind = "Bool" -> BOOLEAN
      [] kind = "String" -> {<<>>, <<65, 128512, 66>>}
      [] kind \in {"FixedArray", "Array"} -> {<<>>}
\* the token an array is filled up with
ElemKinds == {"Uint", "Bool", "String"}
ElemToken(kind) ==
    CASE kind = "Uint" -> Token("Uint", <<0, 0, 0, 1>>)
      [] kind = "Bool" -> Token("Bool", TRUE)
      [] kind = "String" -> Token("String", <<128512>>)
SeqsUpTo(S, n) == UNION {[1..k -> S] : k \in 0..n}
Typed(T, v) == [type |-> T, v |-> v]
HostTypes == {"H160", "U256", "bytes", "string", "strings"}
ValuesOf(T) ==
    CASE T = "H160" -> Addresses
      [] T = "U256" -> Words
      [] T = "bytes" -> ByteSeqs
      [] T = "string" -> Strings
      [] T = "strings" -> SeqsUpTo({<<72, 105>>, <<128512>>}, MaxLen)
\* objects a guest can hand to the host: buffers of any length, strings of
\* any code units, a token whose payload points at such a buffer
Guest(T, obj, heap) == [type |-> T, obj |-> obj, heap |-> heap]
GuestObjects ==
    {Guest("H160", ArrayBuffer(Repeat(7, n)), <<>>) : n \in {0, 19, 20, 21}}
    \cup {Guest("U256", ArrayBuffer(Repeat(1, n)), <<>>) : n \in {3, 4, 5}}
    \cup {Guest("string", AscString(u), <<>>) :
            u \in {<<55296>>, <<65, 56320>>, <<55357, 65>>, <<55357, 56832>>}}
    \cup {Guest("Token", AscEnum("Address", 1), <<ArrayBuffer(Repeat(7, n))>>) : n \in {19, 20}}
    \cup {Guest("Token", AscEnum(d, 1), <<ArrayBuffer(Repeat(1, n))>>) :
            d \in {"Int", "Uint"}, n \in {4, 5}}

RECURSIVE Depth(_)
Depth(tok) ==
    IF tok.kind \notin {"FixedArray", "Array"} \/ tok.v = <<>> THEN 0
    ELSE 1 + Depth(tok.v[1])

AInit(value) ==
    /\ abi_pc = "host"
    /\ abi_type = value.type
    /\ abi_from = "host"
    /\ abi_value = value.v
    /\ abi_obj = NoObj
    /\ abi_heap = <<>>
    /\ abi_result = NoResult

\* the host builds an array token around the token it has
WrapToken(kind, more) ==
    /\ abi_pc = "host"
    /\ abi_type = "Token"
    /\ Depth(abi_value) < MaxDepth
    /\ abi_value' = Token(kind, <<abi_value>> \o more)
    /\ UNCHANGED <<abi_pc, abi_type, abi_from, abi_obj, abi_heap, abi_result>>
    /\ UNCHANGED ExceptAbi

\* the host writes its value to the heap
to_asc_obj ==
    /\ abi_pc = "host"
    /\ LET r == ToAscObj(abi_type, abi_value, <<>>)
       IN  abi_obj' = r.obj /\ abi_heap' = r.heap
    /\ abi_pc' = "asc"
    /\ UNCHANGED <<abi_type, abi_from, abi_value, abi_result>>
    /\ UNCHANGED ExceptAbi

\* the guest hands the host an object of its own making
GuestObject(g) ==
    /\ abi_pc = "host"
    /\ abi_type' = g.type
    /\ abi_from' = "guest"
    /\ abi_value' = <<>>
    /\ abi_obj' = g.obj
    /\ abi_heap' = g.heap
    /\ abi_pc' = "asc"
    /\ UNCHANGED abi_result
    /\ UNCHANGED ExceptAbi

\* the host reads the object
from_asc_obj ==
    /\ abi_pc = "asc"
    /\ abi_result' = FromAscObj(abi_type, abi_obj, abi_heap)
    /\ abi_pc' = "done"
    /\ UNCHANGED <<abi_type, abi_from, abi_value, abi_obj, abi_heap>>
    /\ UNCHANGED ExceptAbi

AbiNext ==
    \/ \E kind \in {"FixedArray", "Array"}, e \in ElemKinds, n \in 0..(MaxLen - 1) :
            WrapToken(kind, Repeat(ElemToken(e), n))
    \/ to_asc_obj
    \/ \E g \in GuestObjects : GuestObject(g)
    \/ from_asc_obj

\* ================================================================
\* The Ethereum adapter (thegraph-ethereum/src/ethereum_adapter.rs):
\* contract_call encodes the call, sends it to the node with eth_call and
\* decodes the output. Output bytes are a sequence of 32-byte words.
\* ================================================================
ContractFunction(name, inputs, outputs) == [name |-> name, inputs |-> inputs, outputs |-> outputs]
Functions ==
    {ContractFunction("totalSupply", 0, <<"uint">>),
     ContractFunction("paused", 0, <<"bool">>),
     ContractFunction("poke", 0, <<>>),
     ContractFunction("balanceOf", 1, <<"uint">>),
     ContractFunction("getReserves", 0, <<"uint", "uint">>)}
EthereumContractCallRequest(function, args, at_block) ==
    [function |-> function, args |-> args, block_number |-> at_block]
Requests ==
    {EthereumContractCallRequest(f, a, b) :
        f \in Functions, a \in {<<>>, <<Token("Address", Ramp(20))>>}, b \in {NULL, {5}}}
OutputWords == {0, 1, 5}
NoRequest == EthereumContractCallRequest(ContractFunction("none", 0, <<>>), <<>>, NULL)

\* Function::encode_input: Err when the arguments do not match the inputs
encode_input(function, args) ==
    IF Len(args) # function.inputs THEN Err("InvalidData")
    ELSE Ok([selector |-> function.name, args |-> args])
\* Result::unwrap
unwrap(r) == IF r.ok THEN r ELSE Panic("called Result::unwrap() on an Err value")
\* one output word read as a token of its type
DecodeWord(type, word) ==
    IF type = "bool" THEN Token("Bool", word = 1) ELSE Token("Uint", <<word, 0, 0, 0>>)
\* Function::decode_output: Err when the data is shorter than the outputs
decode_output(function, data) ==
    IF Len(data) < Len(function.outputs) THEN Err("InvalidData")
    ELSE Ok([i \in 1..Len(function.outputs) |-> DecodeWord(function.outputs[i], data[i])])
\* the only error value contract_call builds
Failed == Err("Failed")
Reverted == Err("Reverted")
IsError(r, e) == ~r.ok /\ r.v = e.v

WInit ==
    /\ eth_pc = "idle"
    /\ eth_request = NoRequest
    /\ eth_cause = "none"
    /\ eth_reply = NoResult
    /\ eth_result = NoResult

\* contract_call up to the request being sent
contract_call(request) ==
    /\ eth_pc = "idle"
    /\ eth_request' = request
    /\ LET call_data == unwrap(encode_input(request.function, request.args))
       IN  IF call_data.panic
           THEN eth_pc' = "done" /\ eth_result' = call_data
           ELSE eth_pc' = "sent" /\ UNCHANGED eth_result
    /\ UNCHANGED <<eth_cause, eth_reply>>
    /\ UNCHANGED ExceptAdapter

\* the contract runs to its end and returns its outputs
NodeReturns(data) ==
    /\ eth_pc = "sent"
    /\ Len(data) = Len(eth_request.function.outputs)
    /\ eth_cause' = "returned"
    /\ eth_reply' = Ok(data)
    /\ eth_pc' = "replied"
    /\ UNCHANGED <<eth_request, eth_result>>
    /\ UNCHANGED ExceptAdapter

\* the contract reverts: the node answers with an error, or with empty output
NodeReverts(as_error) ==
    /\ eth_pc = "sent"
    /\ eth_cause' = "reverted"
    /\ eth_reply' = IF as_error THEN Err("execution reverted") ELSE Ok(<<>>)
    /\ eth_pc' = "replied"
    /\ UNCHANGED <<eth_request, eth_result>>
    /\ UNCHANGED ExceptAdapter

\* no contract at the address: empty output
NodeFindsNoCode ==
    /\ eth_pc = "sent"
    /\ eth_cause' = "no_code"
    /\ eth_reply' = Ok(<<>>)
    /\ eth_pc' = "replied"
    /\ UNCHANGED <<eth_request, eth_result>>
    /\ UNCHANGED ExceptAdapter

\* the transport fails
TransportFails ==
    /\ eth_pc = "sent"
    /\ eth_cause' = "transport"
    /\ eth_reply' = Err("transport")
    /\ eth_pc' = "replied"
    /\ UNCHANGED <<eth_request, eth_result>>
    /\ UNCHANGED ExceptAdapter

\* the future resolves: map_err, and_then decode_output, map_err
contract_call_resolves ==
    /\ eth_pc = "replied"
    /\ eth_result' =
            IF ~eth_reply.ok THEN Failed
            ELSE LET tokens == decode_output(eth_request.function, eth_reply.v)
                 IN  IF tokens.ok THEN tokens ELSE Failed
    /\ eth_pc' = "done"
    /\ UNCHANGED <<eth_request, eth_cause, eth_reply>>
    /\ UNCHANGED ExceptAdapter

AdapterNext ==
    \/ \E request \in Requests : contract_call(request)
    \/ \E data \in SeqsUpTo(OutputWords, 2) : NodeReturns(data)
    \/ \E as_error \in BOOLEAN : NodeReverts(as_error)
    \/ NodeFindsNoCode
    \/ TransportFails
    \/ contract_call_resolves

\* ================================================================
\* Lifecycle calls in concurrent transactions (metadata.rs). Every connection
\* runs one call at a time inside a transaction. A statement sees the rows
\* that are committed when it runs and the rows its own transaction wrote
\* (PostgreSQL READ COMMITTED, diesel's default); a statement that updates
\* or deletes a row another open transaction has written waits for that
\* transaction to end. Connection t1 works on the name g1, t2 on g2.
\* ================================================================
Connections == {"t1", "t2"}
ConnectionName(t) == IF t = "t1" THEN "g1" ELSE "g2"
\* most transactions in one behaviour
MaxTx == 3

NoTx ==
    [pc |-> "idle", op |-> "none", id |-> "", node_id |-> "", mode |-> "",
     subgraph_id |-> 0, version_id |-> 0, current_synced |-> FALSE, is_new |-> FALSE,
     add_sg |-> {}, set_sg |-> {}, del_sg |-> {}, add_sv |-> {}, del_sv |-> {},
     add_asg |-> {}, del_asg |-> {}, set_synced |-> {}]

XInit ==
    /\ tx = [t \in Connections |-> NoTx]
    /\ ntx = 0

\* the tables as the statements of transaction w see them
ViewSubgraph(w) ==
    {x \in subgraph : x.id \notin w.del_sg /\ ~\E u \in w.set_sg : u.id = x.id}
        \cup w.set_sg \cup w.add_sg
ViewVersion(w) == {v \in subgraph_version : v.id \notin w.del_sv} \cup w.add_sv
ViewAssignment(w) == {a \in assignment : a.id \notin w.del_asg} \cup w.add_asg
\* the rows transaction w holds a lock on
LockedSubgraphs(w) == w.del_sg \cup {u.id : u \in w.set_sg}
\* some other open transaction has written one of the rows
OthersLockSubgraphs(t, ids) ==
    \E u \in Connections \ {t} : LockedSubgraphs(tx[u]) \cap ids # {}
OthersLockAssignments(t, ids) ==
    \E u \in Connections \ {t} : tx[u].del_asg \cap ids # {}

\* create_subgraph_version up to the check for an assignment: the subgraph
\* is looked up or created, the version inserted, new_assignment computed
BeginCreate(t, id, node_id, mode) ==
    /\ tx[t].pc = "idle"
    /\ ntx < MaxTx
    /\ nextId <= MaxIds
    /\ \E info \in SubgraphInfo(subgraph, ConnectionName(t)) :
        LET subgraph_id == IF info.found THEN info.id ELSE nextId
            version_id == IF info.found THEN nextId ELSE nextId + 1
        IN  /\ tx' = [tx EXCEPT ![t] =
                    [NoTx EXCEPT
                        !.pc = "checked", !.op = "create", !.id = id,
                        !.node_id = node_id, !.mode = mode,
                        !.subgraph_id = subgraph_id, !.version_id = version_id,
                        !.current_synced =
                            current_exists_and_synced(info.current_version,
                                                      subgraph_version, deployment),
                        !.is_new = new_assignment(assignment, id),
                        !.add_sg = IF info.found THEN {}
                                   ELSE {SubgraphRow(subgraph_id, ConnectionName(t))},
                        !.add_sv = {VersionRow(version_id, subgraph_id, id)}]]
            /\ nextId' = version_id + 1
    /\ ntx' = ntx + 1
    /\ UNCHANGED <<subgraph, subgraph_version, deployment, assignment, ret, call>>
    /\ UNCHANGED ExceptConcurrent

\* if new_assignment { insert_into(a::table) }: the insert waits for an open
\* transaction that inserted the same id, and fails on a committed row
InsertAssignment(t) ==
    /\ tx[t].pc = "checked"
    /\ ~\E u \in Connections \ {t} : \E a \in tx[u].add_asg : a.id = tx[t].id
    /\ tx' = [tx EXCEPT ![t] =
            IF ~tx[t].is_new THEN [tx[t] EXCEPT !.pc = "assigned"]
            ELSE IF \E a \in assignment : a.id = tx[t].id THEN NoTx
            ELSE [tx[t] EXCEPT !.pc = "assigned",
                               !.add_asg = {AssignmentRow(tx[t].id, tx[t].node_id)}]]
    /\ UNCHANGED <<subgraph, subgraph_version, deployment, assignment, nextId, ret, call, ntx>>
    /\ UNCHANGED ExceptConcurrent

\* the update that makes the version current or pending
SwitchVersionStep(t) ==
    /\ tx[t].pc = "assigned"
    /\ ~OthersLockSubgraphs(t, {tx[t].subgraph_id})
    /\ LET w == tx[t]
           switched == SwitchVersion(ViewSubgraph(w), w.subgraph_id, w.version_id,
                                     w.mode, w.current_synced)
           row == {x \in switched : x.id = w.subgraph_id}
       IN  tx' = [tx EXCEPT ![t] =
                IF w.add_sg # {}
                THEN [w EXCEPT !.pc = "written", !.add_sg = row]
                ELSE [w EXCEPT !.pc = "written", !.set_sg = row]]
    /\ UNCHANGED <<subgraph, subgraph_version, deployment, assignment, nextId, ret, call, ntx>>
    /\ UNCHANGED ExceptConcurrent

\* remove_subgraph up to the cleanup: the versions and the subgraph are deleted
BeginRemove(t) ==
    /\ tx[t].pc = "idle"
    /\ ntx < MaxTx
    /\ \E info \in SubgraphInfo(subgraph, ConnectionName(t)) :
        IF info.found
        THEN /\ ~OthersLockSubgraphs(t, {info.id})
             /\ tx' = [tx EXCEPT ![t] =
                    [NoTx EXCEPT
                        !.pc = "written", !.op = "remove",
                        !.del_sv = {v.id : v \in {w \in subgraph_version :
                                                    w.subgraph = info.id}},
                        !.del_sg = {info.id}]]
        ELSE tx' = [tx EXCEPT ![t] = [NoTx EXCEPT !.pc = "cleaned", !.op = "remove"]]
    /\ ntx' = ntx + 1
    /\ UNCHANGED <<subgraph, subgraph_version, deployment, assignment, nextId, ret, call>>
    /\ UNCHANGED ExceptConcurrent

\* deployment_synced up to the cleanup: the pending versions of the
\* deployment are selected for update and promoted
BeginSynced(t, id) ==
    /\ tx[t].pc = "idle"
    /\ ntx < MaxTx
    /\ LET pending == pending_subgraph_versions(subgraph, subgraph_version, id)
           ids == {p[1] : p \in pending}
       IN  /\ ~OthersLockSubgraphs(t, ids)
           /\ tx' = [tx EXCEPT ![t] =
                    [NoTx EXCEPT
                        !.pc = "written", !.op = "synced", !.id = id,
                        !.set_sg = {x \in Promote(subgraph, pending) : x.id \in ids}]]
    /\ ntx' = ntx + 1
    /\ UNCHANGED <<subgraph, subgraph_version, deployment, assignment, nextId, ret, call>>
    /\ UNCHANGED ExceptConcurrent

\* remove_unused_assignments, and for deployment_synced the update of synced
Cleanup(t) ==
    /\ tx[t].pc = "written"
    /\ LET w == tx[t]
           removed == remove_unused_assignments(ViewSubgraph(w), ViewVersion(w),
                                                ViewAssignment(w))
           ids == {a.id : a \in removed}
       IN  /\ ~OthersLockAssignments(t, ids)
           /\ w.op = "synced" =>
                ~\E u \in Connections \ {t} : w.id \in tx[u].set_synced
           /\ tx' = [tx EXCEPT ![t] =
                    [w EXCEPT !.pc = "cleaned",
                              !.del_asg = {a.id : a \in removed \cap assignment},
                              !.add_asg = w.add_asg \ removed,
                              !.set_synced = IF w.op = "synced" THEN {w.id} ELSE {}]]
    /\ UNCHANGED <<subgraph, subgraph_version, deployment, assignment, nextId, ret, call, ntx>>
    /\ UNCHANGED ExceptConcurrent

\* COMMIT: the rows the transaction wrote become the committed rows
CommitTx(t) ==
    /\ tx[t].pc = "cleaned"
    /\ subgraph' = ViewSubgraph(tx[t])
    /\ subgraph_version' = ViewVersion(tx[t])
    /\ assignment' = ViewAssignment(tx[t])
    /\ deployment' = [d \in DeploymentIds |->
                        IF d \in tx[t].set_synced THEN SetSynced(deployment[d])
                        ELSE deployment[d]]
    /\ tx' = [tx EXCEPT ![t] = NoTx]
    /\ call' = Call(tx[t].op, ConnectionName(t), tx[t].id, tx[t].node_id, tx[t].mode,
                    FALSE, NULL)
    /\ UNCHANGED <<nextId, ret, ntx>>
    /\ UNCHANGED ExceptConcurrent

ConcurrentNext ==
    \/ \E t \in Connections, id \in DeploymentIds, m \in Modes :
            BeginCreate(t, id, ProviderNode, m)
    \/ \E t \in Connections : InsertAssignment(t)
    \/ \E t \in Connections : SwitchVersionStep(t)
    \/ \E t \in Connections : BeginRemove(t)
    \/ \E t \in Connections, id \in DeploymentIds : BeginSynced(t, id)
    \/ \E t \in Connections : Cleanup(t)
    \/ \E t \in Connections : CommitTx(t)

\* ================================================================
\* deployment_state_from_name (metadata.rs): the state of the deployment
\* that is the current version of a subgraph, or a StoreError
\* ================================================================
QueryExecutionError(msg) == [kind |-> "QueryExecutionError", msg |-> msg]
ConstraintViolation(msg) == [kind |-> "ConstraintViolation", msg |-> msg]
DeploymentState(id, reorg_count, max_reorg_depth, latest) ==
    [id |-> id, reorg_count |-> reorg_count, max_reorg_depth |-> max_reorg_depth,
     latest_ethereum_block_number |-> latest]

\* a value of a Numeric column without fraction: the sign and the magnitude
\* hi * 2^16 + lo, which may lie outside 32 bits
Numeric(neg, hi, lo) == [neg |-> neg, hi |-> hi, lo |-> lo]
\* BigDecimal::to_i32: Some(n) exactly when -2^31 <= n <= 2^31 - 1
to_i32(n) ==
    IF n.hi < 32768 THEN {(IF n.neg THEN -1 ELSE 1) * (n.hi * 65536 + n.lo)}
    ELSE IF n.neg /\ n.hi = 32768 /\ n.lo = 0 THEN {-(32767 * 65536 + 65535) - 1}
    ELSE NULL

\* mutant: the number is cast, `number as u32`, and a negative one accepted
convert_to_u32_cast(number, field) ==
    IF number = NULL THEN Err(ConstraintViolation("missing"))
    ELSE Ok(Val(number))
\* number.ok_or_else(missing).and_then(u32::try_from(number) or invalid value)
convert_to_u32(number, field) ==
    IF number = NULL THEN Err(ConstraintViolation("missing"))
    ELSE IF Val(number) < 0 THEN Err(ConstraintViolation("invalid value"))
    ELSE Ok(Val(number))

latest_as_block_number(latest) ==
    IF latest = NULL THEN Err(QueryExecutionError("has not started syncing yet"))
    ELSE IF to_i32(Val(latest)) = NULL
    THEN Err(ConstraintViolation("can not be represented as an i32"))
    ELSE Ok(Val(to_i32(Val(latest))))

\* SubgraphDeploymentId::new is not part of the sources at hand: the ids
\* of DeploymentIds are taken to be legal, every other string illegal
SubgraphDeploymentId_new(s) == IF s \in DeploymentIds THEN Ok(s) ELSE Err(s)

QueryDeployment(id, reorg_count, max_reorg_depth, latest) ==
    [id |-> id, reorg_count |-> reorg_count, max_reorg_depth |-> max_reorg_depth,
     latest_ethereum_block_number |-> latest]
StateRow(sid, vid, did, reorg_count, max_reorg_depth, latest) ==
    [sid |-> sid, vid |-> vid, did |-> did, reorg_count |-> reorg_count,
     max_reorg_depth |-> max_reorg_depth, latest_ethereum_block_number |-> latest]
\* s left outer join v on s.current_version = v.id
\*   left outer join d on v.deployment = d.id   where s.name = name
StateRows(sg, sv, dpl, name) ==
    UNION {
        LET versions == {v \in sv : {v.id} = x.current_version}
        IN  IF versions = {} THEN {StateRow(x.id, NULL, NULL, NULL, NULL, NULL)}
            ELSE UNION {
                LET deployments == {d \in dpl : d.id = v.deployment}
                IN  IF deployments = {}
                    THEN {StateRow(x.id, {v.id}, NULL, NULL, NULL, NULL)}
                    ELSE {StateRow(x.id, {v.id}, {d.id}, {d.reorg_count},
                                   {d.max_reorg_depth}, d.latest_ethereum_block_number)
                            : d \in deployments}
                : v \in versions}
        : x \in {y \in sg : y.name = name}}

deployment_state_from_name(sg, sv, dpl, name) ==
    LET joined == StateRows(sg, sv, dpl, name)
    IN  IF Cardinality(joined) = 0 THEN Err(QueryExecutionError("not found"))
        ELSE IF Cardinality(joined) > 1
        THEN Err(ConstraintViolation("Multiple subgraphs with the name"))
        ELSE LET row == CHOOSE r \in joined : TRUE
             IN  IF row.vid = NULL THEN Err(QueryExecutionError("no current version"))
                 ELSE IF row.did = NULL
                 THEN Err(ConstraintViolation("missing a deployment"))
                 ELSE LET id == SubgraphDeploymentId_new(Val(row.did))
                          reorg_count == convert_to_u32(row.reorg_count, "reorg_count")
                          max_reorg_depth ==
                              convert_to_u32(row.max_reorg_depth, "max_reorg_depth")
                          latest ==
                              latest_as_block_number(row.latest_ethereum_block_number)
                      IN  IF ~id.ok THEN Err(ConstraintViolation("Illegal deployment id"))
                          ELSE IF ~reorg_count.ok THEN reorg_count
                          ELSE IF ~max_reorg_depth.ok THEN max_reorg_depth
                          ELSE IF ~latest.ok THEN latest
                          ELSE Ok(DeploymentState(id.v, reorg_count.v,
                                                  max_reorg_depth.v, latest.v))

\* the deployments of the lifecycle tables: QmA has ingested blocks, QmB none
RunningDeployments ==
    {QueryDeployment("QmA", 1, 1, {Numeric(FALSE, 0, 5)}),
     QueryDeployment("QmB", 0, 0, NULL)}
QInit ==
    /\ q_sg = {} /\ q_sv = {} /\ q_dpl = RunningDeployments
    /\ q_pc = "idle" /\ q_name = "" /\ q_result = NoResult
    /\ q_asked = FALSE /\ by_hand = FALSE

\* ---- the query as a function of the tables: tables of one or two
\* subgraphs, at most one version and one deployment, sound or broken
QueryNames == {"g1", "g2"}
QueryIds == {"QmA", "Qm/illegal"}
Counters == {-1, 0, 2}
\* 0, 5, -1, 2^31 - 1, 2^31, -2^31, -2^31 - 1, 2^32
Numerics ==
    {Numeric(FALSE, 0, 0), Numeric(FALSE, 0, 5), Numeric(TRUE, 0, 1),
     Numeric(FALSE, 32767, 65535), Numeric(FALSE, 32768, 0), Numeric(TRUE, 32768, 0),
     Numeric(TRUE, 32768, 1), Numeric(FALSE, 65536, 0)}
QuerySubgraphs ==
    {{}} \cup
    {{[SubgraphRow(1, "g1") EXCEPT !.current_version = c]} : c \in {NULL, {10}}} \cup
    {{[SubgraphRow(1, "g1") EXCEPT !.current_version = c],
      [SubgraphRow(2, n) EXCEPT !.current_version = NULL]}
        : c \in {NULL, {10}}, n \in QueryNames}
QueryVersions == {{}} \cup {{VersionRow(10, 1, d)} : d \in QueryIds}
QueryDeployments ==
    {{}} \cup
    {{QueryDeployment(d, rc, md, l)}
        : d \in QueryIds, rc \in Counters, md \in Counters,
          l \in {NULL} \cup {{n} : n \in Numerics}}
QueryInit ==
    /\ q_sg \in QuerySubgraphs /\ q_sv \in QueryVersions /\ q_dpl \in QueryDeployments
    /\ q_pc = "input" /\ q_name = "" /\ q_result = NoResult
    /\ q_asked = FALSE /\ by_hand = FALSE

QueryState(name) ==
    /\ q_pc = "input"
    /\ q_result' = deployment_state_from_name(q_sg, q_sv, q_dpl, name)
    /\ q_name' = name
    /\ q_pc' = "done"
    /\ UNCHANGED <<q_sg, q_sv, q_dpl, q_asked, by_hand>>
    /\ UNCHANGED ExceptQuery

StateNext == \E name \in QueryNames : QueryState(name)

\* ---- the query on the tables the lifecycle calls write
\* the query of the lifecycle tables, any number of times
StateFromName(name) ==
    /\ q_result' = deployment_state_from_name(subgraph, subgraph_version, q_dpl, name)
    /\ q_name' = name
    /\ q_asked' = ~q_asked
    /\ UNCHANGED <<q_sg, q_sv, q_dpl, q_pc, by_hand>>
    /\ UNCHANGED ExceptQuery

\* a second Subgraph row with a name in use is inserted by hand, past
\* create_subgraph_version
DuplicateByHand(name) ==
    /\ nextId <= MaxIds
    /\ \E x \in subgraph : x.name = name
    /\ subgraph' = subgraph \cup {SubgraphRow(nextId, name)}
    /\ nextId' = nextId + 1
    /\ by_hand' = TRUE
    /\ UNCHANGED <<subgraph_version, deployment, assignment, ret, call>>
    /\ UNCHANGED <<q_sg, q_sv, q_dpl, q_pc, q_name, q_result, q_asked>>
    /\ UNCHANGED <<evars, pvars, hvars, cvars, rvars, avars, wvars, xvars, mvars>>

NameNext ==
    \/ \E n \in Names, id \in DeploymentIds, m \in Modes :
            create_subgraph_version(n, id, ProviderNode, m)
    \/ \E n \in Names : remove_subgraph(n)
    \/ \E n \in Names : DuplicateByHand(n)
    \/ \E n \in Names \cup {"g3"} : StateFromName(n)

\* ================================================================
\* The instance manager. SubgraphInstanceManager is not among the sources
\* at hand; it is modelled from its description: it handles the events
\* Start(manifest) and Stop(id) in the order sent, on Start builds a
\* runtime host for every data source of the manifest and registers the
\* instance under the deployment id, on Stop ends the instance; a Start
\* for an id that is registered changes nothing. The host builder is the
\* one of core/tests/tests.rs.
\* ================================================================
\* most events sent in one behaviour
MaxEvents == 4

\* the manifest of a deployment: QmA is the subgraph two-datasources
SubgraphManifest(id) ==
    [id |-> id,
     data_sources |-> IF id = "QmA" THEN <<"ExampleDataSource", "ExampleDataSource2">>
                      ELSE <<"ExampleDataSource">>]
SubgraphStartEvent(manifest) ==
    [event |-> "SubgraphStart", id |-> manifest.id, data_sources |-> manifest.data_sources]
SubgraphStopEvent(id) == [event |-> "SubgraphStop", id |-> id, data_sources |-> <<>>]
NoEvent == [event |-> "none", id |-> "", duplicate |-> FALSE]
Handled(event, id, duplicate) == [event |-> event, id |-> id, duplicate |-> duplicate]

MInit ==
    /\ m_events = <<>>
    /\ m_sent = 0
    /\ m_instances = [id \in DeploymentIds |-> NULL]
    /\ m_running = {}
    /\ m_received = <<>>
    /\ m_handle = 1
    /\ m_last = NoEvent

\* MockRuntimeHostBuilder::build: the data source is pushed onto
\* data_sources_received and a host returned
build(received, id, data_source) == Append(received, [id |-> id, name |-> data_source])
MockRuntimeHost(data_source) == [data_source |-> data_source]
\* mutant: a host is built for the first data source only
BuildFirstHost(data_sources) ==
    IF data_sources = <<>> THEN <<>> ELSE <<MockRuntimeHost(data_sources[1])>>
\* one host per data source of the manifest, in the manifest's order
BuildHosts(data_sources) ==
    [i \in 1..Len(data_sources) |-> MockRuntimeHost(data_sources[i])]
RECURSIVE BuildAll(_, _, _)
BuildAll(received, id, hosts) ==
    IF hosts = <<>> THEN received
    ELSE BuildAll(build(received, id, hosts[1].data_source), id, Tail(hosts))

\* mutant: the manager never finds an id registered
IsRegisteredNever(instances, id) == FALSE
IsRegistered(instances, id) == instances[id] # NULL

\* the provider sends an event into the manager's event sink
SendStart(id) ==
    /\ m_sent < MaxEvents
    /\ m_events' = Append(m_events, SubgraphStartEvent(SubgraphManifest(id)))
    /\ m_sent' = m_sent + 1
    /\ UNCHANGED <<m_instances, m_running, m_received, m_handle, m_last>>
    /\ UNCHANGED ExceptManager
SendStop(id) ==
    /\ m_sent < MaxEvents
    /\ m_events' = Append(m_events, SubgraphStopEvent(id))
    /\ m_sent' = m_sent + 1
    /\ UNCHANGED <<m_instances, m_running, m_received, m_handle, m_last>>
    /\ UNCHANGED ExceptManager

\* the manager handles the oldest event, a Start
handle_subgraph_start ==
    /\ m_events # <<>>
    /\ Head(m_events).event = "SubgraphStart"
    /\ LET ev == Head(m_events)
           hosts == BuildHosts(ev.data_sources)
       IN  IF IsRegistered(m_instances, ev.id)
           THEN /\ m_last' = Handled("SubgraphStart", ev.id, TRUE)
                /\ UNCHANGED <<m_instances, m_running, m_received, m_handle>>
           ELSE /\ m_received' = BuildAll(m_received, ev.id, hosts)
                /\ m_running' = m_running \cup
                        {[handle |-> m_handle, id |-> ev.id, hosts |-> hosts]}
                /\ m_instances' = [m_instances EXCEPT ![ev.id] = {m_handle}]
                /\ m_handle' = m_handle + 1
                /\ m_last' = Handled("SubgraphStart", ev.id, FALSE)
    /\ m_events' = Tail(m_events)
    /\ UNCHANGED m_sent
    /\ UNCHANGED ExceptManager

\* the manager handles the oldest event, a Stop: the registered instance
\* is cancelled and has ended when the handler returns
handle_subgraph_stop ==
    /\ m_events # <<>>
    /\ Head(m_events).event = "SubgraphStop"
    /\ LET ev == Head(m_events)
       IN  /\ m_running' = {i \in m_running : {i.handle} # m_instances[ev.id]}
           /\ m_instances' = [m_instances EXCEPT ![ev.id] = NULL]
           /\ m_last' = Handled("SubgraphStop", ev.id, FALSE)
    /\ m_events' = Tail(m_events)
    /\ UNCHANGED <<m_sent, m_received, m_handle>>
    /\ UNCHANGED ExceptManager

ManagerStep == handle_subgraph_start \/ handle_subgraph_stop
ManagerNext ==
    \/ \E id \in DeploymentIds : SendStart(id)
    \/ \E id \in DeploymentIds : SendStop(id)
    \/ handle_subgraph_start
    \/ handle_subgraph_stop

\* two deployments that have been running: one synced, one failed
HeadInit ==
    /\ EInit /\ LInit /\ PInit /\ CInit(TRUE) /\ RInit
    /\ AInit(Typed("Token", Token("Bool", FALSE)))
    /\ WInit
    /\ XInit
    /\ QInit
    /\ MInit
    /\ heads = [id \in DeploymentIds |-> DeploymentRow(id = "QmA", id = "QmB")]
    /\ hcall = HeadCall("init", "", NoPtr)
    /\ reorg_runs = [id \in DeploymentIds |-> NoRuns]

\* a test build or a release build of the pool
PoolInit ==
    /\ EInit /\ LInit /\ PInit /\ HInit /\ RInit
    /\ AInit(Typed("Token", Token("Bool", FALSE)))
    /\ WInit
    /\ XInit
    /\ QInit
    /\ MInit
    /\ \E test \in BOOLEAN : CInit(test)

\* a host value of any type of the ABI
AbiInit ==
    /\ EInit /\ LInit /\ PInit /\ HInit /\ CInit(TRUE) /\ RInit
    /\ \/ \E T \in HostTypes : \E v \in ValuesOf(T) : AInit(Typed(T, v))
       \/ \E kind \in TokenKinds : \E v \in PayloadsOf(kind) : AInit(Typed("Token", Token(kind, v)))
    /\ WInit
    /\ XInit
    /\ QInit
    /\ MInit

Init ==
    /\ EInit /\ LInit /\ PInit /\ HInit /\ CInit(TRUE) /\ RInit
    /\ AInit(Typed("Token", Token("Bool", FALSE)))
    /\ WInit
    /\ XInit
    /\ QInit
    /\ MInit
\* One deployment written block by block, with rollbacks and reorgs.
Spec == Init /\ [][Next]_vars
SentinelSpec == Init /\ [][SentinelNext]_vars
\* Deploys, removals and sync notifications on the metadata tables.
LifecycleSpec == Init /\ [][LifecycleNext]_vars
\* The provider over the metadata tables, with its event streams.
ProviderSpec == Init /\ [][ProviderNext]_vars
\* Lifecycle calls any of which may return an error part of the way.
LifecycleErrorSpec == Init /\ [][LifecycleErrorNext]_vars
\* Head movements of two deployments, in any order.
HeadSpec == HeadInit /\ [][HeadNext]_vars
\* Threads that share the connection pool, and the clock.
PoolSpec == PoolInit /\ [][PoolNext]_vars
\* a step that needs nothing but time to pass, a thread to be scheduled or
\* the pool to wake a waiting thread
AcquireProgress ==
    \E t \in PoolThreads :
        \/ Sleep(t)
        \/ TakeConnection(t)
        \/ handle_timeout(t)
        \/ handle_checkout(t)
        \/ add_wait_time_last_log(t)
        \/ add_wait_time_stats(t)
        \/ PutBack(t, FALSE)
\* Acquisitions with time that passes and threads that are scheduled: a wait
\* that can run out does, a handler that has begun runs to its end.
AcquireSpec == PoolInit /\ [][AcquireNext]_vars /\ WF_vars(AcquireProgress)
\* Values crossing the ABI in both directions.
AbiSpec == AbiInit /\ [][AbiNext]_vars
\* Contract calls through the Ethereum adapter.
AdapterSpec == Init /\ [][AdapterNext]_vars
\* Lifecycle calls of two connections, interleaved statement by statement.
ConcurrentSpec == Init /\ [][ConcurrentNext]_vars
\* deployment_state_from_name applied to tables of every shape.
StateInit ==
    /\ EInit /\ LInit /\ PInit /\ HInit /\ CInit(TRUE) /\ RInit
    /\ AInit(Typed("Token", Token("Bool", FALSE)))
    /\ WInit
    /\ XInit
    /\ QueryInit
    /\ MInit
StateSpec == StateInit /\ [][StateNext]_vars
\* Deploys and removals, rows inserted by hand, and the query by name.
NameSpec == Init /\ [][NameNext]_vars
\* The instance manager and the events sent to it.
ManagerSpec == Init /\ [][ManagerNext]_vars
\* The same, where the manager's task is scheduled as long as events wait.
ManagerFairSpec == Init /\ [][ManagerNext]_vars /\ WF_vars(ManagerStep)
\* Subgraph instances that share the pool.
InstanceSpec == PoolInit /\ [][InstanceNext]_vars
\* The same threads in a test build, with the clock ticking between events.
WaitLogSpec == Init /\ [][WaitLogNext]_vars

\* ================================================================
\* Properties of the entity store
\* ================================================================
\* the last block committed and not reverted since (0: none)
LastCommitted == PrevCommitted(MaxBlock + 1)
\* block numbers at which entities are looked up
Blocks == 0..(MaxBlock + 1)
\* a row with a non-empty closed range
IsClosed(r) == IF IsOpen(r) THEN FALSE ELSE r.from < Val(r.to)
\* what every other connection sees: the last committed state
Visible == IF pc = "idle" THEN [rows |-> rows, dep |-> dep]
           ELSE [rows |-> Val(snap).rows, dep |-> Val(snap).dep]

\* C1: revert_block(b_j) leaves every entity row exactly as it was right after
\* the commit of the block before b_j (rows from b_j on removed, rows closed at
\* b_j or later re-opened), and reorg_count goes up by exactly 1.
C1_RevertRestoresPreviousBlock ==
    [][nreverts' = nreverts + 1 =>
        /\ rows' = Val(hist[LastCommitted'])
        /\ dep'.reorg_count = dep.reorg_count + 1]_vars
\* a block that closed an older row was reverted and the row is live again
C1_Witness ==
    /\ last.op = "revert"
    /\ dep.reorg_count = 1
    /\ LastCommitted >= 1
    /\ \E r \in rows : IsOpen(r) /\ r.from = 1 /\ LastCommitted > 1

C3_TimeTravel ==
    [][(nops' = nops + 1 /\ last'.op \in {"update", "delete"}) =>
        \A n \in Blocks :
            IF n < blk.number
            THEN find(rows', last'.key, n) = find(rows, last'.key, n)
            ELSE find(rows', last'.key, n) =
                    (IF last'.op = "update" THEN {Data(blk.number, nops)} ELSE NULL)]_vars
\* an entity written in an earlier block was just deleted: the old version is
\* still found at the earlier block, nothing at the current one
C3_Witness ==
    /\ last.op = "delete"
    /\ blk.number >= 2
    /\ find(rows, last.key, blk.number - 1) # NULL
    /\ find(rows, last.key, blk.number) = NULL

\* C4: on a deployment created with entity_count 0, after any sequence of
\* committed blocks, each ending with update_entity_count(inserts - deletes),
\* entity_count is the number of rows with an open range.
C4_EntityCountIsOpenRows ==
    (pc = "idle" /\ nreverts = 0 /\ ~tampered) => dep.entity_count = {OpenCount(rows)}
\* a committed block that deleted an entity while another one is live
C4_Witness ==
    /\ last.op = "commit"
    /\ nreverts = 0
    /\ OpenCount(rows) = 1
    /\ \E r \in rows : IsClosed(r) /\ Find(rows, r.key, HeadNumber) = NULL

\* C5: update_entity_count(delta) on a stored count of NULL or -1 stores the
\* full count of the deployment's entities, on any other stored count v it
\* stores v + delta.
C5_SentinelRecount ==
    [][(pc = "ops" /\ pc' = "counted") =>
        dep'.entity_count =
            (IF dep.entity_count \in {NULL, {-1}}
             THEN {CountQuery(rows)}
             ELSE Plus(dep.entity_count, delta))]_vars

\* C6: the writes of a block (entity rows, entity count, head pointer) become
\* visible together at COMMIT and not before; a transaction whose closure
\* fails leaves rows and deployment row exactly as they were when it began.
C6_BlockIsAtomic ==
    [][/\ (Visible' # Visible) => (last'.op \in {"commit", "revert"})
       /\ (pc = "forwarded" /\ pc' = "idle" /\ last'.op = "commit") =>
            /\ Visible'.rows = rows
            /\ Visible'.dep = forward_block_ptr(update_entity_count(Visible.dep, rows, delta), blk)
       /\ (pc # "idle" /\ pc' = "idle" /\ last'.op # "commit") =>
            /\ rows' = Visible.rows
            /\ dep' = Visible.dep]_vars
\* a transaction that had written rows, the count and the head was rolled back
C6_Witness ==
    /\ last.op = "rollback_forwarded"
    /\ HeadNumber >= 1
    /\ rows # {}

\* ================================================================
\* Properties of the subgraph lifecycle
\* ================================================================
SubgraphsNamed(sg, name) == {s \in sg : s.name = name}
\* the version is the newest one: the id handed out last
IsNewest(v) == v = {nextId - 1}

\* C7: a deploy in mode Instant, or in mode Synced on a subgraph without a
\* synced current version, makes the version it created the current version
\* and leaves no pending version.
C7_NewVersionBecomesCurrent ==
    [][(call'.op = "create" /\ nextId' # nextId
            /\ (call'.mode = "Instant" \/ ~SyncedCurrent(call'.name))) =>
        \E v \in subgraph_version' \ subgraph_version :
            /\ SubgraphsNamed(subgraph', call'.name) # {}
            /\ \A s \in SubgraphsNamed(subgraph', call'.name) :
                /\ s.id = v.subgraph
                /\ s.current_version = {v.id}
                /\ s.pending_version = NULL]_vars
\* an Instant deploy over a synced current version with a pending one
C7_Witness ==
    /\ call.op = "create"
    /\ call.mode = "Instant"
    /\ call.synced_current
    /\ call.prev_pending # NULL
    /\ \E s \in SubgraphsNamed(subgraph, call.name) :
        IsNewest(s.current_version) /\ s.pending_version = NULL

\* C8: a deploy in mode Synced on a subgraph whose current version is synced
\* makes the version it created the pending version, in place of an earlier
\* pending one, and leaves the current version as it was.
C8_NewVersionBecomesPending ==
    [][(call'.op = "create" /\ nextId' # nextId
            /\ call'.mode = "Synced" /\ SyncedCurrent(call'.name)) =>
        \E v \in subgraph_version' \ subgraph_version :
            /\ SubgraphsNamed(subgraph', call'.name) # {}
            /\ \A s \in SubgraphsNamed(subgraph', call'.name) :
                /\ s.id = v.subgraph
                /\ s.pending_version = {v.id}
                /\ \E old \in SubgraphsNamed(subgraph, call'.name) :
                    old.id = s.id /\ old.current_version = s.current_version]_vars
\* a Synced deploy replaced an earlier pending version
C8_Witness ==
    /\ call.op = "create"
    /\ call.mode = "Synced"
    /\ call.synced_current
    /\ call.prev_pending # NULL
    /\ \E s \in SubgraphsNamed(subgraph, call.name) :
        /\ IsNewest(s.pending_version)
        /\ s.pending_version # call.prev_pending
        /\ s.current_version # NULL

\* C9: every subgraph with a pending version has a current version whose
\* deployment is synced.
C9_PendingNeedsSyncedCurrent ==
    \A s \in subgraph :
        s.pending_version # NULL =>
            /\ s.current_version # NULL
            /\ \E v \in subgraph_version :
                /\ v.id = Val(s.current_version)
                /\ deployment[v.deployment].synced
\* a sync notification for another deployment left a pending version pending
C9_Witness ==
    /\ call.op = "synced"
    /\ \E s \in subgraph, v \in subgraph_version :
        /\ s.pending_version = {v.id}
        /\ v.deployment # call.id
        /\ ~deployment[v.deployment].synced

\* C10: a subgraph's current and pending version, when both set, differ.
C10_CurrentAndPendingDiffer ==
    \A s \in subgraph :
        (s.current_version # NULL /\ s.pending_version # NULL) =>
            s.current_version # s.pending_version
\* a subgraph whose pending version was promoted and that has a new pending one
C10_Witness ==
    /\ call.op = "create"
    /\ \E s \in subgraph :
        /\ s.current_version # NULL
        /\ s.pending_version # NULL
        /\ Cardinality({v \in subgraph_version : v.subgraph = s.id}) >= 3
        /\ \A v \in subgraph_version : v.subgraph = s.id => v.id <= Val(s.pending_version)
        /\ \E v \in subgraph_version : v.subgraph = s.id /\ v.id < Val(s.current_version)

\* C11: there is at most one assignment per deployment id, and a deploy of a
\* deployment that already has an assignment leaves that assignment, node
\* included, as it was, whatever node the deploy names.
C11_OneAssignmentPerDeployment ==
    /\ [](\A a, b \in assignment : a.id = b.id => a = b)
    /\ [][call'.op = "create" =>
            \A a \in assignment :
                a.id = call'.id => \A b \in assignment' : b.id = a.id => b = a]_vars
\* a deploy named another node than the one the deployment is assigned to
C11_Witness ==
    /\ call.op = "create"
    /\ \E a \in assignment : a.id = call.id /\ a.node_id # call.node_id

\* C12: every assignment belongs to a deployment that some subgraph has as
\* its current or pending version, and no call removes an assignment whose
\* deployment is still referenced after it.
C12_AssignmentsAreReferenced ==
    /\ [](\A a \in assignment : a.id \in Referenced(subgraph, subgraph_version))
    /\ [][\A a \in assignment :
            a.id \in Referenced(subgraph', subgraph_version') => a \in assignment']_vars
\* a deploy displaced a deployment in one subgraph while another subgraph
\* still has it as its current version: its assignment is still there
C12_Witness ==
    /\ call.op = "create"
    /\ \E s \in SubgraphsNamed(subgraph, call.name), t \in subgraph,
          v \in subgraph_version, w \in subgraph_version :
        /\ t.id # s.id
        /\ IsNewest(s.current_version)
        /\ {x \in subgraph_version : x.subgraph = s.id /\ x.id # nextId - 1} = {v}
        /\ v.deployment # call.id
        /\ t.current_version = {w.id}
        /\ w.deployment = v.deployment
        /\ \E a \in assignment : a.id = v.deployment

\* the pending version of subgraph row s points at deployment id
PendingOn(s, id) ==
    \E v \in subgraph_version : s.pending_version = {v.id} /\ v.deployment = id

\* C13: deployment_synced(id) promotes exactly the subgraphs whose pending
\* version points at id (current := pending, pending := NULL), leaves every
\* other subgraph and all versions as they were, keeps exactly the assignments
\* that are still referenced, and sets synced on id and on no other deployment.
C13_DeploymentSyncedFrame ==
    [][call'.op = "synced" =>
        /\ subgraph' =
                {IF PendingOn(s, call'.id)
                 THEN [s EXCEPT !.current_version = s.pending_version,
                                !.pending_version = NULL]
                 ELSE s : s \in subgraph}
        /\ subgraph_version' = subgraph_version
        /\ assignment' =
                {a \in assignment : a.id \in Referenced(subgraph', subgraph_version')}
        /\ deployment' = [deployment EXCEPT ![call'.id].synced = TRUE]]_vars
\* a sync notification promoted a pending version, the assignment of the
\* displaced deployment was removed, and there is a second subgraph
C13_Witness ==
    /\ call.op = "synced"
    /\ ret # <<>>
    /\ \E s \in subgraph, v \in subgraph_version :
        /\ s.current_version = {v.id}
        /\ v.deployment = call.id
        /\ s.pending_version = NULL
        /\ \E t \in subgraph : t.id # s.id

\* the entity ids of the changes with operation op in a returned change set
ChangedIds(changes, op) ==
    {changes[i].entity_id : i \in {j \in DOMAIN changes : changes[j].operation = op}}

\* C18: the changes create_subgraph_version returns are one Remove for each
\* assignment the cleanup deleted and for nothing else, and one Set, for the
\* deployed id, exactly when the call created the assignment; every Remove
\* comes before the Set.
C18_ReturnedChanges ==
    [][(call'.op = "create" /\ nextId' # nextId) =>
        /\ ChangedIds(ret', "Remove") = {a.id : a \in assignment \ assignment'}
        /\ ChangedIds(ret', "Set") =
                (IF \E a \in assignment : a.id = call'.id THEN {} ELSE {call'.id})
        /\ Len(ret') = Cardinality(ChangedIds(ret', "Remove"))
                            + Cardinality(ChangedIds(ret', "Set"))
        /\ \A i, j \in DOMAIN ret' :
                (ret'[i].operation = "Remove" /\ ret'[j].operation = "Set") => i < j]_vars
\* a deploy displaced one deployment and assigned a new one
C18_Witness ==
    /\ call.op = "create"
    /\ Len(ret) = 2
    /\ ret[1].operation = "Remove"
    /\ ret[2] = Change("Set", call.id)
    /\ ret[1].entity_id # call.id
    /\ \A a \in assignment : a.id # ret[1].entity_id

Deployed == {n \in Names : deployed[n] \notin {"never", "removed"}}

\* C15: while every deploy was in mode Instant, list() is exactly the pairs
\* (name, deployment of the most recent deploy under the name) of the names
\* deployed and not removed since; a name never deployed or removed has no
\* subgraph row, and every version belongs to a subgraph row.
C15_ListIsLastDeploys ==
    /\ instant_only =>
            list(subgraph, subgraph_version) = {<<n, deployed[n]>> : n \in Deployed}
    /\ \A n \in Names \ Deployed : SubgraphsNamed(subgraph, n) = {}
    /\ \A v \in subgraph_version : \E s \in subgraph : s.id = v.subgraph
\* one name was redeployed with another deployment, the other name was
\* deployed and removed
C15_Witness ==
    /\ instant_only
    /\ call.op = "remove"
    /\ result = "ok"
    /\ deployed[call.name] = "removed"
    /\ \E n \in Deployed :
        /\ list(subgraph, subgraph_version) = {<<n, deployed[n]>>}
        /\ \E v \in subgraph_version : v.deployment # deployed[n]

\* the events the step's call added to the provider stream
CallEvents ==
    SubSeq(provider_events', Len(provider_events) + 1, Len(provider_events'))
\* after the step some subgraph other than s has deployment id as its current
\* or pending version
UsedElsewhere(s, id) ==
    \E t \in subgraph', w \in subgraph_version' :
        /\ t.id # s.id
        /\ w.deployment = id
        /\ {w.id} \in {t.current_version, t.pending_version}

CallSchemaEvents ==
    SubSeq(schema_events', Len(schema_events) + 1, Len(schema_events'))

\* C17: the schema stream mirrors the provider stream event by event
\* (SchemaAdded(id) for SubgraphStart(id), SchemaRemoved(id) for
\* SubgraphStop(id)); a call emits SchemaRemoved(id) exactly when id was the
\* current or pending version of some subgraph before it and of none after it;
\* and deploy(g, A), deploy(g, B), remove(g) on a fresh provider gives
\* [SchemaAdded(A), SchemaRemoved(A), SchemaAdded(B), SchemaRemoved(B)].
C17_SchemaEventsMirror ==
    /\ [](/\ Len(schema_events) = Len(provider_events)
          /\ \A i \in DOMAIN schema_events :
                /\ schema_events[i].id = provider_events[i].id
                /\ schema_events[i].kind = "SchemaAdded"
                        <=> provider_events[i].kind = "SubgraphStart"
                /\ schema_events[i].kind = "SchemaRemoved"
                        <=> provider_events[i].kind = "SubgraphStop")
    /\ [][/\ SubSeq(schema_events', 1, Len(schema_events)) = schema_events
          /\ \A id \in DeploymentIds :
               (\E i \in DOMAIN CallSchemaEvents : CallSchemaEvents[i] = SchemaRemoved(id))
                   <=> (/\ id \in Referenced(subgraph, subgraph_version)
                        /\ id \notin Referenced(subgraph', subgraph_version'))
          /\ (call'.op = "remove" /\ result' = "ok" /\ instant_only /\ nextId = 4) =>
               \A a, b \in subgraph_version :
                   (a.id = 2 /\ b.id = 3 /\ a.deployment # b.deployment) =>
                       schema_events' =
                           <<SchemaAdded(a.deployment), SchemaRemoved(a.deployment),
                             SchemaAdded(b.deployment), SchemaRemoved(b.deployment)>>]_vars
\* deploy(g, A), deploy(g, B), remove(g): the schema of B was just removed
C17_Witness ==
    /\ call.op = "remove"
    /\ result = "ok"
    /\ instant_only
    /\ nextId = 4
    /\ Len(schema_events) = 4
    /\ schema_events[1].kind = "SchemaAdded"
    /\ schema_events[2] = SchemaRemoved(schema_events[1].id)
    /\ schema_events[3].kind = "SchemaAdded"
    /\ schema_events[4] = SchemaRemoved(schema_events[3].id)

\* ================================================================
\* Properties of head movement
\* ================================================================
\* C19: forward_block_ptr(id, ptr) sets the latest block number and hash of
\* deployment id to ptr and its current_reorg_depth to 0, and leaves its
\* reorg_count, max_reorg_depth, entity_count, synced, failed and health and
\* the row of every other deployment as they were.
C19_ForwardBlockPtrFrame ==
    [][hcall'.op = "forward" =>
        /\ heads'[hcall'.id] =
                [heads[hcall'.id] EXCEPT
                    !.latest_ethereum_block_number = {hcall'.ptr.number},
                    !.latest_ethereum_block_hash = {hcall'.ptr.hash},
                    !.current_reorg_depth = 0]
        /\ \A f \in {"reorg_count", "max_reorg_depth", "entity_count",
                       "synced", "failed", "health"} :
                heads'[hcall'.id][f] = heads[hcall'.id][f]
        /\ \A d \in DeploymentIds \ {hcall'.id} : heads'[d] = heads[d]]_vars
\* a forward after reverts, while the other deployment is inside a reorg
C19_Witness ==
    /\ hcall.op = "forward"
    /\ heads[hcall.id].current_reorg_depth = 0
    /\ heads[hcall.id].reorg_count >= 2
    /\ heads[hcall.id].max_reorg_depth >= 2
    /\ \E d \in DeploymentIds \ {hcall.id} :
        /\ heads[d].current_reorg_depth >= 1
        /\ heads[d].latest_ethereum_block_number # heads[hcall.id].latest_ethereum_block_number

\* C20: revert_block_ptr(id, ptr) sets the latest block number and hash of
\* deployment id to ptr, adds 1 to reorg_count and to current_reorg_depth, and
\* sets max_reorg_depth to the larger of its old value and the new
\* current_reorg_depth.
C20_RevertBlockPtrCounters ==
    [][hcall'.op = "revert" =>
        /\ heads'[hcall'.id].latest_ethereum_block_number = {hcall'.ptr.number}
        /\ heads'[hcall'.id].latest_ethereum_block_hash = {hcall'.ptr.hash}
        /\ heads'[hcall'.id].reorg_count = heads[hcall'.id].reorg_count + 1
        /\ heads'[hcall'.id].current_reorg_depth =
                heads[hcall'.id].current_reorg_depth + 1
        /\ heads'[hcall'.id].max_reorg_depth =
                (IF heads[hcall'.id].max_reorg_depth >= heads'[hcall'.id].current_reorg_depth
                 THEN heads[hcall'.id].max_reorg_depth
                 ELSE heads'[hcall'.id].current_reorg_depth)]_vars
\* a first revert after a forward that followed a reorg two blocks deep:
\* max_reorg_depth stays above current_reorg_depth
C20_Witness ==
    /\ hcall.op = "revert"
    /\ heads[hcall.id].current_reorg_depth = 1
    /\ heads[hcall.id].max_reorg_depth = 2
    /\ heads[hcall.id].reorg_count = 3

\* C21: starting from reorg_count = current_reorg_depth = max_reorg_depth = 0,
\* after any sequence of forward_block_ptr and revert_block_ptr calls the
\* current_reorg_depth of every deployment is at most its reorg_count and at
\* most its max_reorg_depth.
C21_ReorgDepthBounded ==
    \A id \in DeploymentIds :
        /\ heads[id].current_reorg_depth <= heads[id].reorg_count
        /\ heads[id].current_reorg_depth <= heads[id].max_reorg_depth
\* two reverts in a row after an earlier reorg: the depth has reached the
\* maximum and is below the count
C21_Witness ==
    \E id \in DeploymentIds :
        /\ hcall.op = "revert" /\ hcall.id = id
        /\ heads[id].current_reorg_depth = 2
        /\ heads[id].max_reorg_depth = 2
        /\ heads[id].reorg_count = 3

CheckedOut(t) == upc[t] \in {"log_checkout", "stats_checkout", "holding"}

\* C23: under any interleaving of checkouts, checkins and timeouts the gauge
\* equals the number of connections checked out (counted up by every
\* checkout, down by every checkin, untouched by the pool establishing or
\* closing connections) and stays within 0..pool_size.
C23_GaugeIsCheckedOut ==
    /\ gauge = Cardinality({t \in PoolThreads : CheckedOut(t)})
    /\ gauge \in 0..pool_size
    /\ Quiescent => gauge = pool_conns - pool_idle
\* both connections are out while the third thread has timed out
C23_Witness ==
    /\ gauge = pool_size
    /\ pool_idle = 0
    /\ \E t \in PoolThreads : outcome[t] = "err" /\ upc[t] = "out"
    /\ \E t \in PoolThreads : upc[t] = "holding"
    /\ \E t \in PoolThreads : upc[t] = "stats_checkout"

\* C24: an acquisition blocks until a connection is free or the configured
\* timeout (6 hours, 30 s in test builds) has passed, and ends in exactly one
\* of the two ways; one that timed out returns an error, leaves the gauge as
\* it was and hands out no connection. (Of the finitely many acquisitions of
\* a behaviour none stays unfinished: from some point on no thread is waiting
\* or inside the handler of its checkout or timeout.)
C24_AcquireOrTimeout ==
    /\ [][\A t \in PoolThreads :
            /\ (upc[t] = "waiting" /\ upc'[t] # "waiting") =>
                    \/ /\ upc'[t] = "checkout"
                       /\ pool_idle > 0
                       /\ pool_idle' = pool_idle - 1
                    \/ /\ upc'[t] = "log_timeout"
                       /\ now >= started[t] + (IF test_build THEN 30 ELSE 21600)
            /\ (upc[t] \in {"waiting", "log_timeout", "stats_timeout"}
                    /\ upc'[t] \in {"log_timeout", "stats_timeout", "out"}
                    /\ upc'[t] # upc[t]) =>
                    /\ gauge' = gauge
                    /\ pool_idle' = pool_idle
                    /\ pool_conns' = pool_conns
                    /\ upc'[t] = "out" =>
                            /\ outcome'[t] = "err"
                            /\ Len(errors') = Len(errors) + 1
            /\ (outcome'[t] # outcome[t] /\ outcome'[t] = "ok") =>
                    upc[t] = "stats_checkout" /\ upc'[t] = "holding"
            /\ (outcome'[t] # outcome[t] /\ outcome'[t] = "err") =>
                    upc[t] = "stats_timeout" /\ upc'[t] = "out"]_vars
    /\ <>[](\A t \in PoolThreads :
                /\ upc[t] \in {"out", "holding", "checkin"}
                /\ upc[t] # "out" => outcome[t] = "ok")
\* in a release build a thread has waited its six hours in vain while the
\* two connections stayed checked out
C24_Witness ==
    /\ ~test_build
    /\ now >= 21600
    /\ gauge = pool_size
    /\ errors # <<>>
    /\ \E t \in PoolThreads : outcome[t] = "err" /\ upc[t] = "out"

C26_PoolTimeoutRetried ==
    [][\A t \in PoolThreads :
        (outcome[t] = "err" /\ instance[t].running) =>
            /\ instance'[t].running
            /\ ~instance'[t].failed
            /\ instance'[t].block = instance[t].block]_vars

\* ----------------------------------------------------------------
\* Properties of the AssemblyScript ABI
\* ----------------------------------------------------------------

\* C27: no decoder panics: reading an ArrayBuffer whose length is not 20 as
\* an address, one whose length is not 4 as a U256, or an AscString that is
\* not UTF-16 gives an error value and never aborts the host.
C27_DecodersNeverPanic ==
    abi_pc = "done" => ~abi_result.panic

\* what a token reads back as: Uint becomes Int, at every depth
RECURSIVE UintAsInt(_)
UintAsInt(tok) ==
    IF tok.kind = "Uint" THEN Token("Int", tok.v)
    ELSE IF tok.kind \in {"FixedArray", "Array"}
    THEN Token(tok.kind, [i \in 1..Len(tok.v) |-> UintAsInt(tok.v[i])])
    ELSE tok
RECURSIVE HasUint(_)
HasUint(tok) ==
    \/ tok.kind = "Uint"
    \/ /\ tok.kind \in {"FixedArray", "Array"}
       /\ \E i \in 1..Len(tok.v) : HasUint(tok.v[i])
RoundTripped == abi_pc = "done" /\ abi_from = "host"

\* C28 as stated: every host value of every ABI type reads back equal to
\* what was written, every Token variant preserved.
C28_RoundTripExact ==
    RoundTripped => abi_result.ok /\ abi_result.v = abi_value

\* C28: every host value of every ABI type reads back without a panic and
\* equal to what was written (strings, byte arrays, addresses, U256 words,
\* arrays of pointers, tokens at every depth), except that a Token::Uint
\* reads back as Token::Int with the same value; every other variant is
\* preserved.
C28_RoundTrip ==
    RoundTripped =>
        /\ abi_result.ok
        /\ abi_result.v = IF abi_type = "Token" THEN UintAsInt(abi_value) ELSE abi_value
C28_Witness ==
    /\ RoundTripped
    /\ abi_type = "Token"
    /\ abi_value.kind = "FixedArray"
    /\ Depth(abi_value) >= 2
    /\ HasUint(abi_value)
    /\ abi_result.ok
    /\ abi_result.v # abi_value

\* C29: an AscEnum with discriminant Uint or Int reads as Token::Int with
\* the four words its payload points at; nothing read holds a Token::Uint;
\* writing a token keeps its variant as the discriminant.
C29_UintDecodesAsInt ==
    abi_type = "Token" =>
        /\ (abi_pc = "done" /\ abi_result.ok) =>
                /\ ~HasUint(abi_result.v)
                /\ abi_obj.discr \in {"Int", "Uint"} =>
                        /\ abi_result.v.kind = "Int"
                        /\ abi_result.v.v = abi_heap[abi_obj.payload].content
        /\ (abi_pc \in {"asc", "done"} /\ abi_from = "host") =>
                abi_obj.discr = abi_value.kind
C29_Witness ==
    /\ abi_pc = "done"
    /\ abi_type = "Token"
    /\ abi_from = "host"
    /\ abi_value.kind = "Uint"
    /\ abi_obj.discr = "Uint"
    /\ abi_result.ok
    /\ abi_result.v = Token("Int", <<2147483647, 1, 0, 2147483647>>)

\* ----------------------------------------------------------------
\* Properties of the Ethereum adapter
\* ----------------------------------------------------------------

\* C30: a call the contract reverts resolves to Reverted, a transport or
\* decoding failure resolves to Failed, and the two are never the same
\* error value.
C30_RevertDistinguished ==
    (eth_pc = "done" /\ ~eth_result.panic) =>
        /\ eth_cause = "reverted" => IsError(eth_result, Reverted)
        /\ eth_cause \in {"transport", "no_code"} => IsError(eth_result, Failed)

\* ----------------------------------------------------------------
\* Further properties of the subgraph lifecycle
\* ----------------------------------------------------------------

\* C33: no lifecycle call, successful or not, changes failed, health or
\* fatal_error of any deployment, and none resets synced from true to
\* false.
C33_LifecycleNeverFails ==
    [][\A d \in DeploymentIds :
        /\ deployment'[d].failed = deployment[d].failed
        /\ deployment'[d].health = deployment[d].health
        /\ deployment'[d].fatal_error = deployment[d].fatal_error
        /\ deployment[d].synced => deployment'[d].synced]_vars
C33_Witness ==
    /\ call.op = "remove_err"
    /\ deployment["QmB"].synced /\ deployment["QmB"].failed
    /\ deployment["QmA"].synced /\ ~deployment["QmA"].failed
    /\ \E x \in subgraph :
        /\ x.current_version # NULL
        /\ \A v \in subgraph_version : x.current_version # {v.id}

\* C34: every create_subgraph_version inserts exactly one Version row, of
\* the deployment it was given; no call changes a row that exists; a row
\* disappears only in a remove_subgraph of the subgraph it belongs to, which
\* deletes all versions of that subgraph and no other.
C34_VersionsImmutable ==
    [][/\ call'.op = "create" =>
            /\ subgraph_version \subseteq subgraph_version'
            /\ Cardinality(subgraph_version' \ subgraph_version) = 1
            /\ \A v \in subgraph_version' \ subgraph_version :
                    /\ v.deployment = call'.id
                    /\ \A w \in subgraph_version : w.id # v.id
       /\ \A v \in subgraph_version, w \in subgraph_version' : v.id = w.id => v = w
       /\ call'.op = "synced" => subgraph_version' = subgraph_version
       /\ call'.op = "remove" =>
            subgraph_version' =
                {v \in subgraph_version :
                    ~\E x \in subgraph : x.name = call'.name /\ x.id = v.subgraph}]_vars
C34_Witness ==
    /\ call.op = "remove"
    /\ call.name = "g1"
    /\ \A x \in subgraph : x.name = "g2"
    /\ \E v, w \in subgraph_version :
            v.id # w.id /\ v.subgraph = w.subgraph /\ v.deployment = w.deployment

\* ----------------------------------------------------------------
\* Further properties of the head table
\* ----------------------------------------------------------------

\* C38: from zeroed counters, max_reorg_depth is the length of the longest
\* run of consecutive revert_block_ptr calls and never decreases,
\* current_reorg_depth is the length of the run that is still going on (0
\* after a forward_block_ptr), reorg_count is the number of
\* revert_block_ptr calls.
C38_CountersAreRunLengths ==
    /\ [](\A id \in DeploymentIds :
            /\ heads[id].max_reorg_depth = MaxOf(reorg_runs[id].lengths)
            /\ heads[id].current_reorg_depth =
                    (IF reorg_runs[id].open
                     THEN reorg_runs[id].lengths[Len(reorg_runs[id].lengths)]
                     ELSE 0)
            /\ heads[id].reorg_count = SumOf(reorg_runs[id].lengths))
    /\ [][\A id \in DeploymentIds :
            heads'[id].max_reorg_depth >= heads[id].max_reorg_depth]_vars
\* a run of two, a forward, then a run of one that is still going on
C38_Witness ==
    \E id \in DeploymentIds :
        /\ reorg_runs[id] = [lengths |-> <<2, 1>>, open |-> TRUE]
        /\ heads[id].max_reorg_depth = 2
        /\ heads[id].current_reorg_depth = 1
        /\ heads[id].reorg_count = 3

\* ----------------------------------------------------------------
\* Further properties of the entity store
\* ----------------------------------------------------------------

C37_VersionPointersValid ==
    \A x \in subgraph :
        \A p \in {x.current_version, x.pending_version} \ {NULL} :
            /\ Cardinality({v \in subgraph_version : {v.id} = p}) = 1
            /\ \A v \in subgraph_version :
                    {v.id} = p =>
                        /\ v.subgraph = x.id
                        /\ Cardinality({a \in assignment : a.id = v.deployment}) = 1
\* after a removal: a subgraph with a current and a pending version of
\* different deployments, next to versions that are no longer pointed at
C37_Witness ==
    /\ call.op = "remove"
    /\ \E x \in subgraph, v, w, u \in subgraph_version :
            /\ x.current_version = {v.id}
            /\ x.pending_version = {w.id}
            /\ v.deployment # w.deployment
            /\ u.subgraph = x.id
            /\ u.id \notin {v.id, w.id}
    /\ Cardinality(assignment) = 2

\* C36: whatever the interleaving of concurrent lifecycle transactions on
\* different names that share a deployment, once all of them have committed
\* every deployment that is the current or pending version of a subgraph
\* has an assignment.
C36_AssignmentsSurviveConcurrency ==
    (\A t \in Connections : tx[t].pc = "idle") =>
        \A d \in Referenced(subgraph, subgraph_version) :
            \E a \in assignment : a.id = d

\* ---------------------------------------------------------------
\* Properties of the query by name
\* ---------------------------------------------------------------
\* the subgraphs of the name asked for, their current versions, and the
\* deployments of those versions
Named == SubgraphsNamed(q_sg, q_name)
CurrentVersions == {v \in q_sv : \E x \in Named : {v.id} = x.current_version}
CurrentDeployments == {d \in q_dpl : \E v \in CurrentVersions : d.id = v.deployment}
InI32(n) == n.hi < 32768 \/ (n.neg /\ n.hi = 32768 /\ n.lo = 0)
\* the errors the defects of a deployment row call for
DeploymentDefects(d) ==
    (IF d.id \in DeploymentIds THEN {} ELSE {"ConstraintViolation"})
    \cup (IF d.reorg_count < 0 \/ d.max_reorg_depth < 0
          THEN {"ConstraintViolation"} ELSE {})
    \cup (IF d.latest_ethereum_block_number = NULL THEN {"QueryExecutionError"}
          ELSE IF InI32(Val(d.latest_ethereum_block_number)) THEN {}
          ELSE {"ConstraintViolation"})
\* the errors the tables call for; none when the tables are sound
ExpectedErrors ==
    IF Named = {} THEN {"QueryExecutionError"}
    ELSE IF Cardinality(Named) > 1 THEN {"QueryExecutionError", "ConstraintViolation"}
    ELSE IF CurrentVersions = {} THEN {"QueryExecutionError"}
    ELSE IF CurrentDeployments = {} THEN {"ConstraintViolation"}
    ELSE UNION {DeploymentDefects(d) : d \in CurrentDeployments}

\* C40: deployment_state_from_name returns a DeploymentState exactly when one
\* subgraph has the name, it has a current version, the version has a
\* deployment with a legal id, the counters are not negative and the latest
\* block number is set and fits an i32; otherwise it returns an error the
\* tables call for: QueryExecutionError for an unknown name, a missing
\* current version or a deployment that has not started syncing,
\* ConstraintViolation for a version without deployment, an illegal id, a
\* negative counter or a block number that is no i32.
C40_StateOrStoreError ==
    q_pc = "done" =>
        /\ q_result.ok <=> ExpectedErrors = {}
        /\ ~q_result.ok => q_result.v.kind \in ExpectedErrors
        /\ q_result.ok =>
                \E d \in CurrentDeployments :
                    /\ q_result.v.id = d.id
                    /\ q_result.v.reorg_count = d.reorg_count
                    /\ q_result.v.max_reorg_depth = d.max_reorg_depth
                    /\ {q_result.v.latest_ethereum_block_number}
                            = to_i32(Val(d.latest_ethereum_block_number))
C40_Witness ==
    /\ q_pc = "done"
    /\ ~q_result.ok
    /\ q_result.v = ConstraintViolation("can not be represented as an i32")

\* C35: lifecycle calls leave at most one Subgraph row per name; the query
\* by name returns a QueryExecutionError when no row has the name and a
\* ConstraintViolation when more than one has.
C35_NamesUnique ==
    /\ [](~by_hand => \A n \in Names : Cardinality(SubgraphsNamed(subgraph, n)) <= 1)
    /\ [][q_asked' # q_asked =>
            LET n == Cardinality(SubgraphsNamed(subgraph, q_name'))
            IN  /\ n = 0 => /\ ~q_result'.ok
                            /\ q_result'.v.kind = "QueryExecutionError"
                /\ n > 1 => /\ ~q_result'.ok
                            /\ q_result'.v.kind = "ConstraintViolation"]_vars
C35_Witness ==
    /\ ~by_hand
    /\ q_name # ""
    /\ \E x \in subgraph :
            /\ x.name = q_name
            /\ Cardinality({v \in subgraph_version : v.subgraph = x.id}) > 1
    /\ q_result.ok

\* ---------------------------------------------------------------
\* Properties of the instance manager
\* ---------------------------------------------------------------
InstancesOf(id) == {i \in m_running : i.id = id}
\* C31: the manager maps every deployment id to at most one running
\* instance at any moment, and a Start for an id that was started and not
\* stopped since leaves exactly one instance of the id running.
C31_IdempotentStart ==
    /\ \A id \in DeploymentIds : Cardinality(InstancesOf(id)) <= 1
    /\ \A id \in DeploymentIds :
            \A i \in InstancesOf(id) : m_instances[id] = {i.handle}
    /\ m_last.event = "SubgraphStart" => Cardinality(InstancesOf(m_last.id)) = 1
C31_Witness ==
    /\ m_last = Handled("SubgraphStart", "QmA", TRUE)
    /\ Cardinality(InstancesOf("QmA")) = 1

StartWaits(id) ==
    \E k \in 1..Len(m_events) :
        m_events[k].event = "SubgraphStart" /\ m_events[k].id = id
NamesOf(q) == {q[k] : k \in 1..Len(q)}
\* an instance of the deployment runs with exactly one host per data source
\* of the manifest, and the names handed to the builder for the deployment
\* are the names of the manifest
HostsBuilt(id) ==
    \E i \in InstancesOf(id) :
        /\ Len(i.hosts) = Len(SubgraphManifest(id).data_sources)
        /\ \A ds \in NamesOf(SubgraphManifest(id).data_sources) :
                Cardinality({k \in 1..Len(i.hosts) : i.hosts[k].data_source = ds}) = 1
        /\ {r.name : r \in {x \in NamesOf(m_received) : x.id = id}}
                = NamesOf(SubgraphManifest(id).data_sources)
\* C32: a Start sent to the manager leads to an instance with exactly one
\* runtime host per data source of the manifest, the names handed to the
\* host builder being those of the manifest.
C32_HostPerDataSource ==
    \A id \in DeploymentIds : StartWaits(id) ~> HostsBuilt(id)
C32_Witness ==
    /\ m_last = Handled("SubgraphStart", "QmA", FALSE)
    /\ HostsBuilt("QmA")
    /\ Len(m_received) = 2

====
